---------------------------- MODULE Spec2Model ----------------------------
(***************************************************************************)
(* Model of the wavelength-visualizer simulation core: the hash-seeded     *)
(* random number generator, the stochastic integrator, the Lorenz          *)
(* attractor, the trail ring buffer and the per-frame line system.         *)
(*                                                                         *)
(* Numbers.  JavaScript numbers are IEEE doubles.  The model uses          *)
(*   - exact rationals [n, d] for the values the attractor and integrator  *)
(*     compute with +, -, * while numerators and denominators are small,   *)
(*     and the term naming the operation and its operands beyond that;     *)
(*   - pairs <<hi, lo>> of 16-bit limbs for unsigned 32-bit words (the     *)
(*     generator's seed, hashes), value hi * 2^16 + lo;                     *)
(*   - terms for results of sqrt, log, cos, sin: two equal terms denote    *)
(*     the same value; NaN is a term of its own.                           *)
(***************************************************************************)
EXTENDS Integers, Naturals, Sequences, FiniteSets, TLC

VARIABLES
    rng,        \* HashSeededRNG.seed of the two generator instances
    rngOut,     \* value returned by the last call on each instance
    rngSynced,  \* both instances got the same seed and the same calls since
    rngCalls    \* number of calls made (bounded)

VARIABLES
    sde,        \* seed of the HashSeededRNG owned by each of two SDEIntegrators
    sdeRet,     \* position returned by the last step() of each integrator
    sdeCall,    \* arguments of the last step() of each integrator
    sdeJoint,   \* the last call was the same seeded step() on both integrators
    sdeCalls    \* number of calls made (bounded)

VARIABLES
    att,        \* a LorenzAttractor: state (x, y, z), params, dt
    attPrev,    \* the attractor as it was before the last call
    attOp,      \* the last call and its params argument
    attRet,     \* what the last call returned
    attOps      \* number of calls made (bounded)

VARIABLES
    tb,         \* a TrailBuffer: capacity and, per instance, slots, cursor, count
    tbWritten,  \* per instance, the points added since it was last reset
    tbRet,      \* the last getTrail call and what it returned
    tbCalls     \* number of calls made (bounded)

VARIABLES
    ls,         \* two orchestrators: a BandManager and the LineSystem built on it
    lsFrame,    \* the arguments of the last update() call
    lsFrames,   \* the frame arguments given so far, oldest first
    lsAgree,    \* per band, both orchestrators got the same inputs for it so far
    lsReset,    \* orchestrator A was used, then stopped and reset
    lsCalls     \* number of calls made (bounded)

VARIABLES
    fnCall,     \* the last call of a stateless operation: its name and arguments
    fnRet       \* what that call returned

VARIABLES
    viz,        \* a Visualizer: its audio processor, extractor, mapper, band manager
    vizPrev,    \* the Visualizer as it was before the last handler ran
    vizOp,      \* the last handler that ran and its input
    vizPrevOp,  \* the handler that ran before it
    vizCalls    \* number of handlers run (bounded)

VARIABLES
    fx,         \* a FeatureExtractor with a short history
    fxSeen,     \* the (flux, loudness, time) entries pushed since construction or reset
    fxRet,      \* the global features the last extractFeatures call returned
    fxCalls     \* number of calls made (bounded)

VARIABLES
    pb,         \* an AudioProcessor, its sources and the ended events under way
    pbHold,     \* what the last pause, play or seek left the playback at
    pbLast,     \* the last call or callback and the processor before it
    pbCalls     \* number of calls and callbacks run (bounded)

rngVars == <<rng, rngOut, rngSynced, rngCalls>>
sdeVars == <<sde, sdeRet, sdeCall, sdeJoint, sdeCalls>>

attVars == <<att, attPrev, attOp, attRet, attOps>>

tbVars == <<tb, tbWritten, tbRet, tbCalls>>

lsVars == <<ls, lsFrame, lsFrames, lsAgree, lsReset, lsCalls>>

fnVars == <<fnCall, fnRet>>

vizVars == <<viz, vizPrev, vizOp, vizPrevOp, vizCalls>>

fxVars == <<fx, fxSeen, fxRet, fxCalls>>

pbVars == <<pb, pbHold, pbLast, pbCalls>>

vars == <<rngVars, sdeVars, attVars, tbVars, lsVars, fnVars, vizVars, fxVars, pbVars>>

(***************************************************************************)
(* Bounds of the exploration                                               *)
(***************************************************************************)
MaxRngCalls == 4
MaxSdeCalls == 3
MaxAttOps == 4
MaxTrailCalls == 7
MaxLineCalls == 3
MaxBandCalls == 3
MaxReplayCalls == 4
MaxVizCalls == 3
MaxFxCalls == 12
MaxPbCalls == 6
\* bands and points per band of the orchestrators (36 and 20 by default)
NumBands == 2
InstancesPerBand == 2
\* rationals with numerator and denominator up to this size are combined
\* exactly, larger ones symbolically
ExactLimit == 30000

(***************************************************************************)
(* Unsigned 32-bit words as limb pairs                                     *)
(***************************************************************************)
LIMB == 65536

U32(hi, lo) == <<hi, lo>>

\* ToUint32 (the >>> 0 of the code) of a limb pair whose hi part overflowed
ToUint32(w) == <<w[1] % LIMB, w[2]>>

\* w + k for a small natural k, not reduced (JavaScript number addition)
WordPlus(w, k) == <<w[1] + ((w[2] + k) \div LIMB), (w[2] + k) % LIMB>>

\* (w * mul + add) >>> 0 for mul, add < 2^31 with (mul % 2^16) < 2^15
MulAddU32(w, mul, add) ==
    LET hi == w[1] % LIMB
        lo == w[2]
        ml == mul % LIMB
        mh == mul \div LIMB
        low == lo * ml + (add % LIMB)
        high == ((hi * ml) % LIMB) + ((lo * mh) % LIMB)
                + (low \div LIMB) + (add \div LIMB)
    IN  <<high % LIMB, low % LIMB>>

WordLess(v, w) == v[1] < w[1] \/ (v[1] = w[1] /\ v[2] < w[2])

RECURSIVE BitXor(_, _)
BitXor(a, b) ==
    IF a = 0 THEN b
    ELSE IF b = 0 THEN a
    ELSE 2 * BitXor(a \div 2, b \div 2) + (((a % 2) + (b % 2)) % 2)

(***************************************************************************)
(* Exact rationals [n, d] with d > 0 and gcd(n, d) = 1                     *)
(***************************************************************************)
Abs(i) == IF i < 0 THEN -i ELSE i

RECURSIVE GCD(_, _)
GCD(a, b) == IF b = 0 THEN a ELSE GCD(b, a % b)

RNorm(n, d) ==
    LET g == GCD(Abs(n), d)
    IN  [n |-> n \div g, d |-> d \div g]

Rat(n, d) == RNorm(n, d)
RInt(i) == [n |-> i, d |-> 1]

RAdd(a, b) ==
    LET g == GCD(a.d, b.d)
    IN  RNorm(a.n * (b.d \div g) + b.n * (a.d \div g), (a.d \div g) * b.d)

RNeg(a) == [n |-> -a.n, d |-> a.d]
RSub(a, b) == RAdd(a, RNeg(b))

RMul(a, b) ==
    LET g1 == GCD(Abs(a.n), b.d)
        g2 == GCD(Abs(b.n), a.d)
    IN  [n |-> (a.n \div g1) * (b.n \div g2), d |-> (a.d \div g2) * (b.d \div g1)]

\* a / b for b # 0
RDiv(a, b) ==
    IF b.n > 0 THEN RMul(a, [n |-> b.d, d |-> b.n])
    ELSE RMul(a, [n |-> -b.d, d |-> -b.n])

RLess(a, b) == a.n * b.d < b.n * a.d
RLeq(a, b) == a.n * b.d <= b.n * a.d
RZero == RInt(0)

(***************************************************************************)
(* Numbers: a rational, or a term over rationals.  +, - and * are carried  *)
(* out exactly while both operands are small rationals; otherwise the      *)
(* result is the term that names the operation and its operands.           *)
(***************************************************************************)
IsRat(v) == DOMAIN v = {"n", "d"}
Exact(v) == IsRat(v) /\ Abs(v.n) <= ExactLimit /\ v.d <= ExactLimit

NAdd(a, b) ==
    IF Exact(a) /\ Exact(b) THEN RAdd(a, b) ELSE [kind |-> "add", a |-> a, b |-> b]
NSub(a, b) ==
    IF Exact(a) /\ Exact(b) THEN RSub(a, b) ELSE [kind |-> "sub", a |-> a, b |-> b]
NMul(a, b) ==
    IF Exact(a) /\ Exact(b) THEN RMul(a, b) ELSE [kind |-> "mul", a |-> a, b |-> b]

(***************************************************************************)
(* HashSeededRNG                                                           *)
(***************************************************************************)
LCG_A == 1664525
LCG_C == 1013904223
\* the divisor 0xFFFFFFFF of next()
RNG_DIVISOR == <<65535, 65535>>

NaN == [kind |-> "nan"]

\* setSeed(seed): this.seed = seed
RNG_setSeedMutant(old, seed) == ToUint32(<<old[1] + seed[1], seed[2]>>)
RNG_setSeed(old, seed) == seed

\* next(): seed = (seed * 1664525 + 1013904223) >>> 0; return seed / 0xFFFFFFFF
\* The returned double is the quotient num / den.
RNG_next(seed) ==
    LET s == MulAddU32(seed, LCG_A, LCG_C)
    IN  [seed |-> s,
         value |-> [kind |-> "uniform", num |-> s, den |-> RNG_DIVISOR]]

\* v < 1 for a value returned by next()
UniformBelowOne(v) == WordLess(v.num, v.den)
\* v >= 0 for a value returned by next()
UniformNonNegative(v) == v.num[1] >= 0 /\ v.num[2] >= 0

\* nextRange(min, max): min + next() * (max - min)
RNG_nextRange(seed, min, max) ==
    LET r == RNG_next(seed)
    IN  [seed |-> r.seed,
         value |-> [kind |-> "range", min |-> min, max |-> max, u |-> r.value]]

\* Math.sqrt(-2 * Math.log(u1 + 1e-10)) * Math.cos(2 * Math.PI * u2) * stdDev + mean
\* u1 = 1 makes the logarithm positive and the square root NaN.
BoxMuller(u1, u2, mean, stdDev) ==
    IF ~UniformBelowOne(u1)
    THEN NaN
    ELSE [kind |-> "gauss", u1 |-> u1, u2 |-> u2, mean |-> mean, stdDev |-> stdDev]

\* nextGaussian(mean, stdDev): two uniform draws, then Box-Muller
RNG_nextGaussian(seed, mean, stdDev) ==
    LET r1 == RNG_next(seed)
        r2 == RNG_next(r1.seed)
    IN  [seed |-> r2.seed, value |-> BoxMuller(r1.value, r2.value, mean, stdDev)]

\* nextGaussian3D(mean, stdDev): three nextGaussian calls in axis order
RNG_nextGaussian3D(seed, mean, stdDev) ==
    LET g1 == RNG_nextGaussian(seed, mean[1], stdDev)
        g2 == RNG_nextGaussian(g1.seed, mean[2], stdDev)
        g3 == RNG_nextGaussian(g2.seed, mean[3], stdDev)
    IN  [seed |-> g3.seed, value |-> <<g1.value, g2.value, g3.value>>]

(***************************************************************************)
(* SDEIntegrator                                                           *)
(***************************************************************************)
Zero == [kind |-> "zero"]

\* the optional seed argument of step()
NoSeed == [given |-> FALSE, value |-> U32(0, 0)]
Seed(w) == [given |-> TRUE, value |-> w]

\* if (seed !== undefined) this.rng.setSeed(seed)
SDE_reseedMutant(rngSeed, seed) == rngSeed
SDE_reseed(rngSeed, seed) ==
    IF seed.given THEN RNG_setSeed(rngSeed, seed.value) ELSE rngSeed

\* dW[k] * Math.sqrt(dt): NaN stays NaN, a finite draw times sqrt(0) is zero
ScaledNoise(g, dt) ==
    IF g = NaN THEN NaN
    ELSE IF dt = RZero THEN Zero
    ELSE [kind |-> "scaled", g |-> g, dt |-> dt]

\* volatility * scaledNoise[k]
Diffusion(volatility, scaled) ==
    IF scaled = NaN THEN NaN
    ELSE IF volatility = RZero \/ scaled = Zero THEN Zero
    ELSE [kind |-> "diffusion", volatility |-> volatility, scaled |-> scaled]

\* position[k] + drift[k] * dt + volatility * scaledNoise[k]
EulerMaruyama(p, mu, dt, diffusion) ==
    LET base == NAdd(p, NMul(mu, dt))
    IN  IF diffusion = NaN THEN NaN
        ELSE IF diffusion = Zero THEN [kind |-> "num", v |-> base]
        ELSE [kind |-> "sum", v |-> base, noise |-> diffusion]

\* step(position, drift, volatility, dt, seed?)
SDE_step(rngSeed, position, drift, volatility, dt, seed) ==
    LET s0 == SDE_reseed(rngSeed, seed)
        dW == RNG_nextGaussian3D(s0, <<0, 0, 0>>, 1)
        scaledNoise == [k \in 1..3 |-> ScaledNoise(dW.value[k], dt)]
    IN  [seed |-> dW.seed,
         value |-> [k \in 1..3 |->
                      EulerMaruyama(position[k], drift[k], dt,
                                    Diffusion(volatility, scaledNoise[k]))]]

(***************************************************************************)
(* LorenzAttractor (and the state it inherits from AttractorBase)          *)
(***************************************************************************)
ParamNames == {"sigma", "rho", "beta"}

\* constructor defaults: { sigma: 10, rho: 28, beta: 8/3 }, dt = 0.01,
\* initial state { x: 1, y: 1, z: 1 }
LorenzDefaultParams == [sigma |-> RInt(10), rho |-> RInt(28), beta |-> Rat(8, 3)]
LorenzDefaultDt == Rat(1, 100)
LorenzDefaultState == [x |-> RInt(1), y |-> RInt(1), z |-> RInt(1)]

\* new LorenzAttractor(initialState, params, dt)
Lorenz_new(initialState, params, dt) ==
    [state |-> initialState, params |-> params, dt |-> dt]

\* the optional Partial<LorenzParams> argument
NoParams == [given |-> FALSE, p |-> << >>]
Params(p) == [given |-> TRUE, p |-> p]

\* if (params) this.params = { ...this.params, ...params }
Lorenz_overrideMutant(stored, arg) ==
    IF arg.given
    THEN [k \in ParamNames |->
            IF k \in DOMAIN arg.p THEN arg.p[k] ELSE LorenzDefaultParams[k]]
    ELSE stored
Lorenz_override(stored, arg) ==
    IF arg.given
    THEN [k \in ParamNames |-> IF k \in DOMAIN arg.p THEN arg.p[k] ELSE stored[k]]
    ELSE stored

\* getState(): a copy of the state
Attractor_getState(a) == a.state

\* step(params?): returns [att |-> the attractor after the call, ret |-> result]
Lorenz_stepSequential(a, arg) ==
    LET params == Lorenz_override(a.params, arg)
        x1 == NAdd(a.state.x,
                   NMul(NMul(params.sigma, NSub(a.state.y, a.state.x)), a.dt))
        y1 == NAdd(a.state.y,
                   NMul(NSub(NMul(x1, NSub(params.rho, a.state.z)), a.state.y), a.dt))
        z1 == NAdd(a.state.z,
                   NMul(NSub(NMul(x1, y1), NMul(params.beta, a.state.z)), a.dt))
        a1 == [a EXCEPT !.params = params, !.state = [x |-> x1, y |-> y1, z |-> z1]]
    IN  [att |-> a1, ret |-> Attractor_getState(a1)]
Lorenz_stepUndamped(a, arg) ==
    LET params == Lorenz_override(a.params, arg)
        x == a.state.x
        y == a.state.y
        z == a.state.z
        dx == NMul(params.sigma, NSub(y, x))
        dy == NMul(x, NSub(params.rho, z))
        dz == NMul(x, y)
        a1 == [a EXCEPT !.params = params,
                        !.state = [x |-> NAdd(x, NMul(dx, a.dt)),
                                   y |-> NAdd(y, NMul(dy, a.dt)),
                                   z |-> NAdd(z, NMul(dz, a.dt))]]
    IN  [att |-> a1, ret |-> Attractor_getState(a1)]
Lorenz_step(a, arg) ==
    LET params == Lorenz_override(a.params, arg)
        x == a.state.x
        y == a.state.y
        z == a.state.z
        sigma == params.sigma
        rho == params.rho
        beta == params.beta
        dx == NMul(sigma, NSub(y, x))
        dy == NSub(NMul(x, NSub(rho, z)), y)
        dz == NSub(NMul(x, y), NMul(beta, z))
        s1 == [a.state EXCEPT !.x = NAdd(@, NMul(dx, a.dt))]
        s2 == [s1 EXCEPT !.y = NAdd(@, NMul(dy, a.dt))]
        s3 == [s2 EXCEPT !.z = NAdd(@, NMul(dz, a.dt))]
        a1 == [a EXCEPT !.params = params, !.state = s3]
    IN  [att |-> a1, ret |-> Attractor_getState(a1)]

\* getDrift(params?)
Lorenz_getDriftStepping(a, arg) ==
    LET r == Lorenz_step(a, arg)
    IN  [att |-> r.att,
         ret |-> <<NMul(r.att.params.sigma, NSub(a.state.y, a.state.x)),
                   NSub(NMul(a.state.x, NSub(r.att.params.rho, a.state.z)), a.state.y),
                   NSub(NMul(a.state.x, a.state.y),
                        NMul(r.att.params.beta, a.state.z))>>]
Lorenz_getDrift(a, arg) ==
    LET params == Lorenz_override(a.params, arg)
        x == a.state.x
        y == a.state.y
        z == a.state.z
        sigma == params.sigma
        rho == params.rho
        beta == params.beta
    IN  [att |-> [a EXCEPT !.params = params],
         ret |-> <<NMul(sigma, NSub(y, x)),
                   NSub(NMul(x, NSub(rho, z)), y),
                   NSub(NMul(x, y), NMul(beta, z))>>]

\* setParams(params)
Lorenz_setParams(a, arg) == [a EXCEPT !.params = Lorenz_override(a.params, arg)]

\* getParams(): a copy of the params
Lorenz_getParams(a) == a.params

(***************************************************************************)
(* TrailBuffer: a ring of `capacity` positions per instance                *)
(***************************************************************************)
ZeroPoint == <<RZero, RZero, RZero>>

\* new TrailBuffer(numInstances, bufferSize)
TrailBuffer_new(numInstances, bufferSize) ==
    [capacity |-> bufferSize,
     rings |-> [i \in 0..(numInstances - 1) |->
                  [slots |-> [k \in 1..bufferSize |-> ZeroPoint],
                   cursor |-> 0,
                   count |-> 0]]]

\* getBufferSize()
TrailBuffer_getBufferSize(t) == t.capacity

\* addPoint(instanceIdx, position): write at the cursor, advance it modulo
\* the capacity; the count saturates at the capacity
TrailBuffer_addPoint(t, i, position) ==
    LET r == t.rings[i]
    IN  [t EXCEPT !.rings[i] =
            [slots |-> [r.slots EXCEPT ![r.cursor + 1] = position],
             cursor |-> (r.cursor + 1) % t.capacity,
             count |-> IF r.count < t.capacity THEN r.count + 1 ELSE r.count]]

\* getTrail(instanceIdx): the retained positions, oldest first
TrailBuffer_getTrailUnrotated(t, i) ==
    LET r == t.rings[i]
    IN  [k \in 1..r.count |-> r.slots[k]]
TrailBuffer_getTrail(t, i) ==
    LET r == t.rings[i]
        start == IF r.count < t.capacity THEN 0 ELSE r.cursor
    IN  [k \in 1..r.count |-> r.slots[((start + k - 1) % t.capacity) + 1]]

\* resetInstance(instanceIdx): zero one instance's history
TrailBuffer_resetInstance(t, i) ==
    [t EXCEPT !.rings[i] =
        [slots |-> [k \in 1..t.capacity |-> ZeroPoint], cursor |-> 0, count |-> 0]]

\* reset(): zero every instance's history
TrailBuffer_reset(t) ==
    [t EXCEPT !.rings =
        [i \in DOMAIN t.rings |->
            [slots |-> [k \in 1..t.capacity |-> ZeroPoint], cursor |-> 0, count |-> 0]]]

(***************************************************************************)
(* HashSeededRNG.hash and generateSeed                                     *)
(***************************************************************************)
\* value.toString() of an integer, as character codes
RECURSIVE Digits(_)
Digits(n) == IF n < 10 THEN <<48 + n>> ELSE Append(Digits(n \div 10), 48 + (n % 10))
NumberToString(v) == IF v < 0 THEN <<45>> \o Digits(-v) ELSE Digits(v)

\* FNV offset basis 2166136261 and the multiplier 16777619 that the shifts
\* 1 + 2 + 16 + 128 + 256 + 2^24 add up to
FNV_OFFSET == U32(33052, 40389)
FNV_PRIME == 16777619

\* hash ^= str.charCodeAt(i); hash += (hash << 1) + ... + (hash << 24)
\* The sum is exact in a double and the next ^= or the final >>> 0 reduces
\* it modulo 2^32.
HashChar(h, c) == MulAddU32(<<h[1], BitXor(h[2], c)>>, FNV_PRIME, 0)

\* for (i = 0; i < str.length; i++): the hash after the remaining characters
HashString(h0, s) ==
    LET H[h \in Nat \X Nat, str \in Seq(Nat)] ==
            IF str = << >> THEN h ELSE H[HashChar(h, Head(str)), Tail(str)]
    IN  H[h0, s]

\* for (const value of values): the hash after the remaining values
HashValues(h0, vs) ==
    LET H[h \in Nat \X Nat, values \in Seq(Int)] ==
            IF values = << >> THEN h
            ELSE H[HashString(h, NumberToString(Head(values))), Tail(values)]
    IN  H[h0, vs]

\* hash(...values)
RNG_hash(values) == HashValues(FNV_OFFSET, values)

\* generateSeed reading the first magnitude of the frame for every band
RNG_generateSeedOfFirst(cqtFrame, bandIndex, tempo, globalSeed) ==
    LET bandValue == IF 0 < Len(cqtFrame) THEN cqtFrame[1] ELSE 0
    IN  RNG_hash(<<bandValue, bandIndex, tempo, globalSeed>>)
\* generateSeed(cqtFrame, bandIndex, tempo, globalSeed)
RNG_generateSeed(cqtFrame, bandIndex, tempo, globalSeed) ==
    LET bandValue == IF bandIndex < Len(cqtFrame) THEN cqtFrame[bandIndex + 1] ELSE 0
    IN  RNG_hash(<<bandValue, bandIndex, tempo, globalSeed>>)

(***************************************************************************)
(* SobolSequence                                                           *)
(***************************************************************************)
SOBOL_MAX_BITS == 30
SobolDimension == 3
SobolPolynomials == << <<1>>, <<1, 1>>, <<1, 0, 1>> >>

RECURSIVE Pow2(_)
Pow2(k) == IF k = 0 THEN 1 ELSE 2 * Pow2(k - 1)

\* for (j = 1; j < poly.length; j++) if (poly[j] === 1) dir ^= dirs[i - poly.length + j] >> j
RECURSIVE Sobol_recurrence(_, _, _, _, _)
Sobol_recurrence(poly, dirs, i, j, dir) ==
    IF j >= Len(poly) THEN dir
    ELSE Sobol_recurrence(poly, dirs, i, j + 1,
            IF poly[j + 1] = 1
            THEN BitXor(dir, dirs[i - Len(poly) + j + 1] \div Pow2(j))
            ELSE dir)

\* for (i = poly.length; i < maxBits; i++) dirs.push(...)
RECURSIVE Sobol_extend(_, _)
Sobol_extend(poly, dirs) ==
    IF Len(dirs) >= SOBOL_MAX_BITS THEN dirs
    ELSE LET i == Len(dirs)
         IN  Sobol_extend(poly,
                Append(dirs, Sobol_recurrence(poly, dirs, i, 1, dirs[i - Len(poly) + 1])))

\* initDirectionNumbers(): the direction numbers of dimension d
Sobol_initDirectionNumbers(d) ==
    LET poly == SobolPolynomials[d + 1]
    IN  Sobol_extend(poly, [i \in 1..Len(poly) |-> Pow2(SOBOL_MAX_BITS - 1 - (i - 1))])

SobolDirectionNumbers == [d \in 0..(SobolDimension - 1) |-> Sobol_initDirectionNumbers(d)]

\* new SobolSequence(3): currentIndex filled with 0
Sobol_new == [d \in 0..(SobolDimension - 1) |-> 0]

\* for (i = 0; i < maxBits; i++) if ((gray >> i) & 1) value ^= directionNumbers[d][i]
Sobol_value(d, gray) ==
    LET V[i \in 0..SOBOL_MAX_BITS, value \in Nat] ==
            IF i >= SOBOL_MAX_BITS THEN value
            ELSE V[i + 1, IF (gray \div Pow2(i)) % 2 = 1
                          THEN BitXor(value, SobolDirectionNumbers[d][i + 1])
                          ELSE value]
    IN  V[0, 0]

\* next() that leaves the indices where they are
Sobol_nextRepeating(currentIndex) ==
    [point |-> [k \in 1..SobolDimension |->
                   LET index == currentIndex[k - 1]
                       gray == BitXor(index, index \div 2)
                   IN  Rat(Sobol_value(k - 1, gray), Pow2(SOBOL_MAX_BITS))],
     currentIndex |-> currentIndex]
\* next(): the point of the current indices; every index advances by one
Sobol_next(currentIndex) ==
    [point |-> [k \in 1..SobolDimension |->
                   LET index == currentIndex[k - 1]
                       gray == BitXor(index, index \div 2)
                   IN  Rat(Sobol_value(k - 1, gray), Pow2(SOBOL_MAX_BITS))],
     currentIndex |-> [d \in DOMAIN currentIndex |-> currentIndex[d] + 1]]

\* reset(): currentIndex.fill(0)
Sobol_reset(currentIndex) == [d \in DOMAIN currentIndex |-> 0]

\* mapToCube(point, center, size): center + (point - 0.5) * size
Sobol_mapToCube(point, center, size) ==
    [k \in 1..3 |-> RAdd(center[k], RMul(RSub(point[k], Rat(1, 2)), size))]

(***************************************************************************)
(* BandManager                                                             *)
(***************************************************************************)
\* getBandPersonality(bandIndex)
BandManager_getBandPersonality(numBands, bandIndex) ==
    LET normalizedIndex == Rat(bandIndex, numBands)
    IN  [driftSpeed |-> RAdd(Rat(3, 10), RMul(normalizedIndex, Rat(7, 10))),
         baseThickness |-> RSub(Rat(3, 10), RMul(normalizedIndex, Rat(2, 10))),
         anisotropy |-> <<RInt(1), RInt(1),
                          RSub(Rat(3, 2), RMul(normalizedIndex, Rat(1, 2)))>>]

\* getDefaultParameters(personality)
BandManager_getDefaultParameters(personality) ==
    [thickness |-> personality.baseThickness,
     alpha |-> Rat(1, 2),
     colorHue |-> RInt(0),
     colorChroma |-> Rat(1, 2),
     colorLuminance |-> Rat(7, 10),
     diffusion |-> Rat(1, 100),
     flowFrequency |-> RInt(1),
     flowIntensity |-> Rat(1, 2),
     lorenzSigma |-> RInt(10),
     lorenzRho |-> RInt(28),
     lorenzBeta |-> Rat(8, 3),
     driftSpeed |-> personality.driftSpeed,
     turbulence |-> Rat(1, 2)]

\* initializeBands(): bands b = 0 .. numBands-1 in order, one Sobol point each
RECURSIVE BandManager_pushBands(_, _)
BandManager_pushBands(m, b) ==
    IF b >= m.numBands THEN m
    ELSE LET s == Sobol_next(m.sobol)
             initialPos == Sobol_mapToCube(s.point, ZeroPoint, RInt(2))
             initialState == [x |-> initialPos[1], y |-> initialPos[2], z |-> initialPos[3]]
             attractor == Lorenz_new(initialState, LorenzDefaultParams, LorenzDefaultDt)
             bandPersonality == BandManager_getBandPersonality(m.numBands, b)
             band == [bandIndex |-> b,
                      position |-> initialPos,
                      attractor |-> attractor,
                      initialPosition |-> initialPos,
                      parameters |-> BandManager_getDefaultParameters(bandPersonality),
                      instancesPerBand |-> m.instancesPerBand]
         IN  BandManager_pushBands(
                [m EXCEPT !.sobol = s.currentIndex, !.bands = Append(@, band)], b + 1)

BandManager_initializeBands(m) == BandManager_pushBands([m EXCEPT !.bands = << >>], 0)

\* new BandManager(numBands, instancesPerBand)
BandManager_new(numBands, instancesPerBand) ==
    BandManager_initializeBands(
        [numBands |-> numBands, instancesPerBand |-> instancesPerBand,
         sobol |-> Sobol_new, bands |-> << >>])

\* getBands(): bands[b] of the code is bands[b + 1] here
BandManager_getBands(m) == m.bands

\* updateBandParameters(bandIndex, parameters)
BandManager_updateBandParameters(m, bandIndex, parameters) ==
    IF bandIndex + 1 \in DOMAIN m.bands
    THEN [m EXCEPT !.bands[bandIndex + 1] =
            [@ EXCEPT !.parameters = parameters,
                      !.attractor = Lorenz_setParams(@,
                          Params([sigma |-> parameters.lorenzSigma,
                                  rho |-> parameters.lorenzRho,
                                  beta |-> parameters.lorenzBeta]))]]
    ELSE m

\* reset(): sobol.reset(); initializeBands()
BandManager_resetContinuing(m) == BandManager_initializeBands(m)
BandManager_reset(m) ==
    BandManager_initializeBands([m EXCEPT !.sobol = Sobol_reset(@)])

\* getNumBands(), getTotalInstances()
BandManager_getNumBands(m) == m.numBands
BandManager_getTotalInstances(m) == m.numBands * m.instancesPerBand

(***************************************************************************)
(* CurlNoiseField and FlowField                                            *)
(***************************************************************************)
\* time = 0, baseFrequency = 1.0, timeWarp = 0
CurlNoiseField_new == [time |-> RZero, baseFrequency |-> RInt(1), timeWarp |-> RZero]

\* update(time, flowFrequency, tempoStrength): timeWarp += tempoStrength * 0.01
CurlNoiseField_update(c, time, flowFrequency, tempoStrength) ==
    [time |-> time,
     baseFrequency |-> flowFrequency,
     timeWarp |-> NAdd(c.timeWarp, NMul(tempoStrength, Rat(1, 100)))]

\* noise3D(x, y, z, time): the sines and floors are not computed; a sample
\* is the term that names everything noise3D reads
CurlNoiseField_noise3D(c, x, y, z, time) ==
    [kind |-> "noise3D", x |-> x, y |-> y, z |-> z, time |-> time,
     frequency |-> c.baseFrequency]

\* noise3D at the samples listed, to four decimals, as the sines, products
\* and floors of noise3D give it:
\* <<x, y, z in thousandths, time as n, d, baseFrequency,
\*   floor and ceiling of 10000 * noise3D(x, y, z, time)>>
Noise3DTable ==
    {<<-1, 100000, 99999, 0, 1, 1, -4885, -4884>>,
     <<-1, 100000, 99999, 13, 600, 2, -2254, -2253>>,
     <<-1, 100000, 100001, 0, 1, 1, 773, 774>>,
     <<-1, 100000, 100001, 13, 600, 2, 2900, 2901>>,
     <<1, 100000, 99999, 0, 1, 1, -376, -375>>,
     <<1, 100000, 99999, 13, 600, 2, 1112, 1113>>,
     <<1, 100000, 100001, 0, 1, 1, 4352, 4353>>,
     <<1, 100000, 100001, 13, 600, 2, -281, -280>>,
     <<499, 99000, 99999, 0, 1, 1, -1536, -1535>>,
     <<499, 99000, 99999, 13, 600, 2, 1377, 1378>>,
     <<499, 99000, 100001, 0, 1, 1, 1388, 1389>>,
     <<499, 99000, 100001, 13, 600, 2, 7135, 7136>>,
     <<501, 99000, 99999, 0, 1, 1, 3126, 3127>>,
     <<501, 99000, 99999, 13, 600, 2, 1219, 1220>>,
     <<501, 99000, 100001, 0, 1, 1, 6648, 6649>>,
     <<501, 99000, 100001, 13, 600, 2, 6331, 6332>>,
     <<99999, 100000, 99999, 0, 1, 1, -3142, -3141>>,
     <<99999, 100000, 99999, 13, 600, 2, -1732, -1731>>,
     <<99999, 100000, 100001, 0, 1, 1, 4990, 4991>>,
     <<99999, 100000, 100001, 13, 600, 2, 3353, 3354>>,
     <<100001, 100000, 99999, 0, 1, 1, -8865, -8864>>,
     <<100001, 100000, 99999, 13, 600, 2, 750, 751>>,
     <<100001, 100000, 100001, 0, 1, 1, -143, -142>>,
     <<100001, 100000, 100001, 13, 600, 2, -347, -346>>,
     <<100499, 99000, 99999, 0, 1, 1, -2433, -2432>>,
     <<100499, 99000, 99999, 13, 600, 2, -1031, -1030>>,
     <<100499, 99000, 100001, 0, 1, 1, 2313, 2314>>,
     <<100499, 99000, 100001, 13, 600, 2, 4672, 4673>>,
     <<100501, 99000, 99999, 0, 1, 1, 584, 585>>,
     <<100501, 99000, 99999, 13, 600, 2, 1785, 1786>>,
     <<100501, 99000, 100001, 0, 1, 1, -5279, -5278>>,
     <<100501, 99000, 100001, 13, 600, 2, 2242, 2243>>}

\* the value of a sample: an enclosure [lo, hi] from the table
CurlNoiseField_noise3DValue(sample) ==
    LET e == CHOOSE e \in Noise3DTable :
                 /\ Rat(e[1], 1000) = sample.x
                 /\ Rat(e[2], 1000) = sample.y
                 /\ Rat(e[3], 1000) = sample.z
                 /\ Rat(e[4], e[5]) = sample.time
                 /\ RInt(e[6]) = sample.frequency
    IN  [lo |-> Rat(e[7], 10000), hi |-> Rat(e[8], 10000)]

CURL_EPSILON == Rat(1, 1000)

\* (noise3D(plus) - noise3D(minus)) / (2 * epsilon)
CentralDifference(plus, minus) ==
    [kind |-> "difference", of |-> plus, from |-> minus,
     over |-> RMul(RInt(2), CURL_EPSILON)]

\* evaluate(x, y, z): the curl of finite differences of noise3D samples at
\* t = time + timeWarp
CurlNoiseField_evaluate(c, x, y, z) ==
    LET epsilon == CURL_EPSILON
        t == NAdd(c.time, c.timeWarp)
        N(px, py, pz) == CurlNoiseField_noise3D(c, px, py, pz, t)
        off(v, k) == NAdd(v, RInt(k))
        dN1_dy == CentralDifference(N(x, NAdd(y, epsilon), z), N(x, NSub(y, epsilon), z))
        dN1_dz == CentralDifference(N(x, y, NAdd(z, epsilon)), N(x, y, NSub(z, epsilon)))
        dN2_dx == CentralDifference(N(NAdd(x, epsilon), off(y, 100), off(z, 100)),
                                    N(NSub(x, epsilon), off(y, 100), off(z, 100)))
        dN2_dz == CentralDifference(N(off(x, 100), off(y, 100), off(NAdd(z, epsilon), 100)),
                                    N(off(x, 100), off(y, 100), off(NSub(z, epsilon), 100)))
        dN3_dx == CentralDifference(N(off(NAdd(x, epsilon), 200), off(y, 200), off(z, 200)),
                                    N(off(NSub(x, epsilon), 200), off(y, 200), off(z, 200)))
        dN3_dy == CentralDifference(N(off(x, 200), off(NAdd(y, epsilon), 200), off(z, 200)),
                                    N(off(x, 200), off(NSub(y, epsilon), 200), off(z, 200)))
    IN  <<NSub(dN3_dy, dN2_dz), NSub(dN1_dz, dN3_dx), NSub(dN2_dx, dN1_dy)>>

\* new FlowField(): intensity = 1.0
FlowField_new == [curlNoise |-> CurlNoiseField_new, intensity |-> RInt(1)]

\* update(time, flowFrequency, tempoStrength, intensity)
FlowField_update(f, time, flowFrequency, tempoStrength, intensity) ==
    [intensity |-> intensity,
     curlNoise |-> CurlNoiseField_update(f.curlNoise, time, flowFrequency, tempoStrength)]

\* evaluate(x, y, z): flow[k] * intensity
FlowField_evaluate(f, x, y, z) ==
    LET flow == CurlNoiseField_evaluate(f.curlNoise, x, y, z)
    IN  [k \in 1..3 |-> NMul(flow[k], f.intensity)]

(***************************************************************************)
(* EngineMixer                                                             *)
(***************************************************************************)
EngineMixer_defaultWeights ==
    [attractor |-> Rat(2, 5), flowField |-> Rat(2, 5), sde |-> Rat(1, 5)]

\* computeWeightsFromFeatures(parameters)
EngineMixer_computeWeightsFromFeatures(parameters) ==
    LET turbulence == parameters.turbulence
    IN  [attractor |-> NSub(Rat(1, 2), NMul(turbulence, Rat(1, 5))),
         flowField |-> NAdd(Rat(3, 10), NMul(turbulence, Rat(1, 5))),
         sde |-> NAdd(Rat(1, 5), NMul(turbulence, Rat(1, 10)))]

\* const w = { ...this.defaultWeights, ...weights }
EngineMixer_weights(weights) ==
    [k \in DOMAIN EngineMixer_defaultWeights |->
        IF k \in DOMAIN weights THEN weights[k] ELSE EngineMixer_defaultWeights[k]]

\* computeDrift(position, attractor, flowField, _sdeIntegrator, parameters, weights)
\* returns [attractor |-> the attractor after getDrift,
\*          sdeIntegrator |-> the integrator's generator state after the call,
\*          drift |-> the vector]
EngineMixer_computeDriftNoisy(position, attractor, flowField, sdeIntegrator, parameters, weights) ==
    LET w == EngineMixer_weights(weights)
        g == Lorenz_getDrift(attractor,
                 Params([sigma |-> parameters.lorenzSigma,
                         rho |-> parameters.lorenzRho,
                         beta |-> parameters.lorenzBeta]))
        attractorDrift == g.ret
        flowVelocity == FlowField_evaluate(flowField, position[1], position[2], position[3])
        noise == SDE_step(sdeIntegrator, <<RZero, RZero, RZero>>, <<RZero, RZero, RZero>>,
                          w.sde, RInt(1), NoSeed)
        scaledAttractorDrift ==
            [k \in 1..3 |-> NMul(NMul(attractorDrift[k], parameters.driftSpeed), w.attractor)]
        scaledFlowVelocity ==
            [k \in 1..3 |-> NMul(NMul(flowVelocity[k], parameters.flowIntensity), w.flowField)]
    IN  [attractor |-> g.att,
         sdeIntegrator |-> noise.seed,
         drift |-> [k \in 1..3 |->
                      [kind |-> "add",
                       a |-> NAdd(scaledAttractorDrift[k], scaledFlowVelocity[k]),
                       b |-> noise.value[k]]]]
EngineMixer_computeDrift(position, attractor, flowField, sdeIntegrator, parameters, weights) ==
    LET w == EngineMixer_weights(weights)
        g == Lorenz_getDrift(attractor,
                 Params([sigma |-> parameters.lorenzSigma,
                         rho |-> parameters.lorenzRho,
                         beta |-> parameters.lorenzBeta]))
        attractorDrift == g.ret
        flowVelocity == FlowField_evaluate(flowField, position[1], position[2], position[3])
        scaledAttractorDrift ==
            [k \in 1..3 |-> NMul(NMul(attractorDrift[k], parameters.driftSpeed), w.attractor)]
        scaledFlowVelocity ==
            [k \in 1..3 |-> NMul(NMul(flowVelocity[k], parameters.flowIntensity), w.flowField)]
    IN  [attractor |-> g.att,
         sdeIntegrator |-> sdeIntegrator,
         drift |-> [k \in 1..3 |-> NAdd(scaledAttractorDrift[k], scaledFlowVelocity[k])]]

(***************************************************************************)
(* CollisionAvoidance                                                      *)
(***************************************************************************)
CollisionStrength == Rat(1, 10)
CollisionEpsilon == Rat(1, 100)

\* A position pushed to allPositions is named by the update() call that
\* pushed it and its place in the array; its value is the entry that call
\* added to the trail of instance index - 1.
PositionRef(update, index) == [update |-> update, index |-> index]

\* a position given by value: three rationals
IsPoint(p) == DOMAIN p = 1..3

\* num / Math.sqrt(radicand) for rationals num # 0 and radicand > 0
OverSqrt(num, radicand) == [kind |-> "overSqrt", num |-> num, radicand |-> radicand]

\* (d[axis] / Math.sqrt(rSquared + epsilon)) * ((2 * k) / (rSquared + epsilon))
\* for d = position - other.  For an other position given by value this is
\* d[axis] * forceMagnitude over the square root of rSquared + epsilon (0 when
\* d[axis] is 0); for one given by name, a term over the position and the name.
CollisionAvoidance_pairForce(position, other, axis) ==
    IF IsPoint(other)
    THEN LET d == [a \in 1..3 |-> RSub(position[a], other[a])]
             rSquared == RAdd(RAdd(RMul(d[1], d[1]), RMul(d[2], d[2])), RMul(d[3], d[3]))
             forceMagnitude == RDiv(RMul(RInt(2), CollisionStrength),
                                    RAdd(rSquared, CollisionEpsilon))
         IN  IF d[axis] = RZero THEN RZero
             ELSE OverSqrt(RMul(d[axis], forceMagnitude),
                           RAdd(rSquared, CollisionEpsilon))
    ELSE [kind |-> "repel", axis |-> axis, position |-> position, other |-> other,
          k |-> CollisionStrength, epsilon |-> CollisionEpsilon]

\* computeForce(position, otherPositions): force starts at 0 and every other
\* position adds its term, in array order
CollisionAvoidance_computeForce(position, otherPositions) ==
    [axis \in 1..3 |->
        LET F[j \in 0..Len(otherPositions)] ==
                IF j = 0 THEN RZero
                ELSE NAdd(F[j - 1],
                          CollisionAvoidance_pairForce(position, otherPositions[j], axis))
        IN  F[Len(otherPositions)]]

(***************************************************************************)
(* LineSystem                                                              *)
(***************************************************************************)
LINE_DT == Rat(2, 125)
TRAIL_SIZE == 64

\* Math.floor of a rational
Floor(r) == r.n \div r.d

\* new LineSystem(bandManager).  updates counts the update() calls;
\* allPositions and instanceIdx are the locals of the last update();
\* draws[instanceIdx + 1] is the generator state the three Gaussian draws of
\* that point started from in the last update(); against[instanceIdx + 1] is
\* the otherPositions argument of that point's computeForce call;
\* wrote[instanceIdx + 1] is <<bandIndex, i, instanceIdx>> of that point's
\* addPoint call; steps[b] counts the attractor.step() calls update() made
\* for band b.
LineSystem_new(bandManager) ==
    [bandManager |-> bandManager,
     trailBuffer |-> TrailBuffer_new(BandManager_getTotalInstances(bandManager), TRAIL_SIZE),
     flowFields |-> [b \in 0..(BandManager_getNumBands(bandManager) - 1) |-> FlowField_new],
     sdeIntegrators |-> [b \in 0..(BandManager_getNumBands(bandManager) - 1) |-> U32(0, b)],
     time |-> RZero,
     updates |-> 0,
     allPositions |-> << >>,
     instanceIdx |-> 0,
     draws |-> << >>,
     against |-> << >>,
     wrote |-> << >>,
     steps |-> [b \in 0..(BandManager_getNumBands(bandManager) - 1) |-> 0]]

\* the seed argument of sdeIntegrator.step(): seed + i
LineSystem_stepSeedUnseeded(seed, i) == NoSeed
LineSystem_stepSeed(seed, i) == Seed(WordPlus(seed, i))

\* if (i === 0): the point whose pass advances the band's attractor
LineSystem_everyPointSteps(i) == TRUE
LineSystem_stepsAttractor(i) == i = 0

\* the body of the instance loop for instance i of the band at bands[n]
LineSystem_point(l, n, i, cqtData, tempo) ==
    LET band == l.bandManager.bands[n]
        attractor == band.attractor
        flowField == l.flowFields[band.bandIndex]
        sdeIntegrator == l.sdeIntegrators[band.bandIndex]
        params == band.parameters
        seed == RNG_generateSeed(cqtData, band.bandIndex, tempo,
                                 Floor(RMul(l.time, RInt(60))))
        state == Attractor_getState(attractor)
        offset == RMul(RInt(i - 1), Rat(1, 10))
        position == IF i = 0
                    THEN <<state.x, state.y, state.z>>
                    ELSE <<NAdd(state.x, offset), NAdd(state.y, offset),
                           NAdd(state.z, offset)>>
        weights == EngineMixer_computeWeightsFromFeatures(params)
        mixed == EngineMixer_computeDrift(position, attractor, flowField, sdeIntegrator,
                                          params, weights)
        otherPositions == [j \in 1..Len(l.allPositions) |-> PositionRef(l.updates, j)]
        avoidanceForce == CollisionAvoidance_computeForce(position, otherPositions)
        drift == [k \in 1..3 |-> NAdd(mixed.drift[k], avoidanceForce[k])]
        stepSeed == LineSystem_stepSeed(seed, i)
        stepped == SDE_step(mixed.sdeIntegrator, position, drift, params.diffusion,
                            NMul(LINE_DT, params.driftSpeed), stepSeed)
        newPosition == stepped.value
        attractor1 == IF LineSystem_stepsAttractor(i)
                      THEN Lorenz_step(mixed.attractor,
                               Params([sigma |-> params.lorenzSigma,
                                       rho |-> params.lorenzRho,
                                       beta |-> params.lorenzBeta])).att
                      ELSE mixed.attractor
    IN  [l EXCEPT !.bandManager.bands[n].attractor = attractor1,
                  !.sdeIntegrators[band.bandIndex] = stepped.seed,
                  !.trailBuffer = TrailBuffer_addPoint(@, l.instanceIdx, newPosition),
                  !.allPositions = Append(@, newPosition),
                  !.instanceIdx = @ + 1,
                  !.draws = Append(@, SDE_reseed(mixed.sdeIntegrator, stepSeed)),
                  !.against = Append(@, otherPositions),
                  !.wrote = Append(@, <<band.bandIndex, i, l.instanceIdx>>),
                  !.steps[band.bandIndex] =
                      IF LineSystem_stepsAttractor(i) THEN @ + 1 ELSE @]

\* for (const band of bands) for (let i = 0; i < band.instancesPerBand; i++)
RECURSIVE LineSystem_points(_, _, _, _, _)
LineSystem_points(l, n, i, cqtData, tempo) ==
    IF n > Len(l.bandManager.bands) THEN l
    ELSE IF i >= l.bandManager.bands[n].instancesPerBand
         THEN LineSystem_points(l, n + 1, 0, cqtData, tempo)
         ELSE LineSystem_points(LineSystem_point(l, n, i, cqtData, tempo),
                                n, i + 1, cqtData, tempo)

\* update(time, cqtData, tempo, beatStrength)
LineSystem_update(l, time, cqtData, tempo, beatStrength) ==
    LET bands == BandManager_getBands(l.bandManager)
        l1 == [l EXCEPT
                 !.time = time,
                 !.updates = @ + 1,
                 !.flowFields =
                     [b \in DOMAIN @ |->
                         IF b + 1 \in DOMAIN bands
                         THEN FlowField_update(@[b], time,
                                  bands[b + 1].parameters.flowFrequency, beatStrength,
                                  bands[b + 1].parameters.flowIntensity)
                         ELSE @[b]],
                 !.allPositions = << >>,
                 !.instanceIdx = 0,
                 !.draws = << >>,
                 !.against = << >>,
                 !.wrote = << >>]
    IN  LineSystem_points(l1, 1, 0, cqtData, tempo)

(***************************************************************************)
(* FeatureExtractor.  Magnitudes are decibel values: a rational or         *)
(* -Infinity.  Float32 rounding is not modelled: every quantity is the     *)
(* real number the formula denotes, or a term naming the formula.          *)
(***************************************************************************)
NegInfinity == [kind |-> "-Infinity"]

RECURSIVE Pow10(_)
Pow10(e) ==
    IF e = 0 THEN RInt(1)
    ELSE IF e > 0 THEN RMul(RInt(10), Pow10(e - 1))
    ELSE RDiv(Pow10(e + 1), RInt(10))

\* Math.pow(10, magnitude / 20)
DbToLinear(m) ==
    IF ~IsRat(m) THEN (IF m = NegInfinity THEN RZero ELSE NaN)
    ELSE IF m.d = 1 /\ m.n % 20 = 0 THEN Pow10(m.n \div 20)
    ELSE [kind |-> "pow10", exponent |-> RDiv(m, RInt(20))]

\* Math.max, Math.min and Math.sqrt
NMax(a, b) ==
    IF IsRat(a) /\ IsRat(b) THEN (IF RLess(a, b) THEN b ELSE a)
    ELSE [kind |-> "max", a |-> a, b |-> b]
NMin(a, b) ==
    IF IsRat(a) /\ IsRat(b) THEN (IF RLess(b, a) THEN b ELSE a)
    ELSE [kind |-> "min", a |-> a, b |-> b]
NSqrt(a) == IF a = RZero THEN RZero ELSE [kind |-> "sqrt", of |-> a]

\* 1 - Math.exp(-1 / (emaTimeConstant * sampleRate / 1024)), emaTimeConstant = 0.15
FeatureExtractor_alphaEMA(sampleRate) ==
    [kind |-> "alphaEMA", emaTimeConstant |-> Rat(15, 100), sampleRate |-> sampleRate]

\* new FeatureExtractor(numBands, sampleRate); array element b is at b + 1
FeatureExtractor_new(numBands, sampleRate) ==
    [numBands |-> numBands,
     previousEnergies |-> [b \in 1..numBands |-> RZero],
     previousPhases |-> [b \in 1..numBands |-> RZero],
     fluxHistory |-> << >>,
     energyHistory |-> << >>,
     timeHistory |-> << >>,
     maxHistoryLength |-> Floor(RMul(RInt(sampleRate), Rat(1, 10))),
     alphaEMA |-> FeatureExtractor_alphaEMA(sampleRate),
     envelopeEMA |-> [b \in 1..numBands |-> RZero],
     fluxEMA |-> [b \in 1..numBands |-> RZero],
     centroidEMA |-> [b \in 1..numBands |-> RZero]]

\* ema * (1 - alphaEMA) + value * alphaEMA
FeatureExtractor_ema(ema, value, alphaEMA) ==
    IF ema = RZero /\ value = RZero THEN RZero
    ELSE [kind |-> "ema", previous |-> ema, value |-> value, alpha |-> alphaEMA]

\* A chroma entry is coef * exp(-dist^2 / 2) / over, where over is a sum
\* of such products: over[d] is the coefficient of exp(-d^2 / 2).
ChromaDistances == 0..6
ChromaUnit == [d \in ChromaDistances |-> IF d = 0 THEN RInt(1) ELSE RZero]

\* chroma.reduce((a, b) => a + b, 0) of entries not yet divided
ChromaSum(chroma) ==
    LET S[i \in 0..12] ==
            IF i = 0 THEN [d \in ChromaDistances |-> RZero]
            ELSE [d \in ChromaDistances |->
                     IF chroma[i - 1].dist = d
                     THEN RAdd(S[i - 1][d], chroma[i - 1].coef)
                     ELSE S[i - 1][d]]
    IN  S[12]

\* sum > 0, for coefficients that are not negative
ChromaPositive(sum) == \E d \in ChromaDistances : sum[d].n > 0

\* for (i...) chroma[i] /= sum
FeatureExtractor_normalizeSkipped(chroma, sum) == chroma
FeatureExtractor_normalize(chroma, sum) ==
    IF ChromaPositive(sum)
    THEN [i \in 0..11 |-> [chroma[i] EXCEPT !.over = sum]]
    ELSE chroma

\* computeChroma(cqtMagnitudes, bandIndex)
FeatureExtractor_computeChroma(cqtMagnitudes, bandIndex) ==
    LET pitchClass == bandIndex % 12
        chroma == [i \in 0..11 |->
                     LET dist0 == Abs(i - pitchClass)
                         dist == IF dist0 < 12 - dist0 THEN dist0 ELSE 12 - dist0
                     IN  [coef |-> DbToLinear(cqtMagnitudes[bandIndex + 1]),
                          dist |-> dist,
                          over |-> ChromaUnit]]
    IN  FeatureExtractor_normalize(chroma, ChromaSum(chroma))

\* computeBandCentroid(_cqtMagnitudes, bandIndex)
FeatureExtractor_computeBandCentroid(cqtMagnitudes, bandIndex) == RInt(bandIndex)

\* the optional cqtPhases argument
NoPhases == [given |-> FALSE, p |-> << >>]
Phases(p) == [given |-> TRUE, p |-> p]

\* phaseDiff + (phaseDiff < -PI ? 2 PI : (phaseDiff > PI ? -2 PI : 0)), over 2 PI
FeatureExtractor_instantaneousFreq(phaseDiff) ==
    IF phaseDiff = RZero THEN RZero
    ELSE [kind |-> "turns", phaseDiff |-> phaseDiff,
          unwrap |-> IF RLess(phaseDiff, Rat(-22, 7)) THEN "+2PI"
                     ELSE IF RLess(Rat(22, 7), phaseDiff) THEN "-2PI"
                     ELSE IF RLeq(RInt(-3), phaseDiff) /\ RLeq(phaseDiff, RInt(3))
                          THEN "0" ELSE "near PI"]

\* log2 of a positive rational as a sum of multiples of log2 of primes:
\* the function from the primes that occur to their exponents
PrimesOf(n) == {q \in 2..n : n % q = 0 /\ \A f \in 2..(q - 1) : q % f # 0}
RECURSIVE Valuation(_, _)
Valuation(n, q) == IF n % q # 0 THEN 0 ELSE 1 + Valuation(n \div q, q)
Log2(p) ==
    [q \in PrimesOf(p.n) \cup PrimesOf(p.d) |->
        RInt(Valuation(p.n, q) - Valuation(p.d, q))]

\* a + c * b for functions from primes to rational coefficients
LogAxpy(a, c, b) ==
    [q \in DOMAIN a \cup DOMAIN b |->
        RAdd(IF q \in DOMAIN a THEN a[q] ELSE RZero,
             IF q \in DOMAIN b THEN RMul(c, b[q]) ELSE RZero)]

\* the number a sum of multiples of logarithms denotes: log2(2) = 1, and the
\* logarithms of the odd primes are independent over the rationals
LogValue(a) ==
    LET odd == {q \in DOMAIN a : q # 2 /\ a[q] # RZero}
        rational == IF 2 \in DOMAIN a THEN a[2] ELSE RZero
    IN  IF odd = {} THEN rational
        ELSE [kind |-> "log2", rational |-> rational, primes |-> [q \in odd |-> a[q]]]

\* the entropy loop: if (p > 0) entropy -= p * Math.log2(p)
FeatureExtractor_entropyUnweighted(energies, energySum) ==
    LET H[i \in 0..Len(energies)] ==
            IF i = 0 THEN << >>
            ELSE LET p == RDiv(energies[i], energySum)
                 IN  IF p.n > 0 THEN LogAxpy(H[i - 1], RInt(-1), Log2(p)) ELSE H[i - 1]
    IN  LogValue(H[Len(energies)])
FeatureExtractor_entropy(energies, energySum) ==
    LET H[i \in 0..Len(energies)] ==
            IF i = 0 THEN << >>
            ELSE LET p == RDiv(energies[i], energySum)
                 IN  IF p.n > 0 THEN LogAxpy(H[i - 1], RNeg(p), Log2(p)) ELSE H[i - 1]
    IN  LogValue(H[Len(energies)])

\* sums over a sequence of rationals
SumOver(s) ==
    LET S[i \in 0..Len(s)] == IF i = 0 THEN RZero ELSE RAdd(S[i - 1], s[i])
    IN  S[Len(s)]

\* estimateTempo() without the clamp of the ratio
FeatureExtractor_estimateTempoUnclamped(fe) ==
    IF Len(fe.fluxHistory) < 10 THEN [tempo |-> 120, beatStrength |-> RZero]
    ELSE LET h == fe.fluxHistory
             M[i \in 1..(Len(h) - 1)] ==
                 IF i = 1 THEN RZero
                 ELSE IF RLess(h[i - 1], h[i]) /\ RLess(h[i + 1], h[i]) /\ RLess(M[i - 1], h[i])
                      THEN h[i] ELSE M[i - 1]
             maxFlux == M[Len(h) - 1]
             avgFlux == RDiv(SumOver(h), RInt(Len(h)))
         IN  [tempo |-> 120,
              beatStrength |-> IF avgFlux.n > 0
                               THEN RDiv(maxFlux, RMul(avgFlux, RInt(3)))
                               ELSE RZero]
\* estimateTempo()
FeatureExtractor_estimateTempo(fe) ==
    IF Len(fe.fluxHistory) < 10 THEN [tempo |-> 120, beatStrength |-> RZero]
    ELSE LET h == fe.fluxHistory
             M[i \in 1..(Len(h) - 1)] ==
                 IF i = 1 THEN RZero
                 ELSE IF RLess(h[i - 1], h[i]) /\ RLess(h[i + 1], h[i]) /\ RLess(M[i - 1], h[i])
                      THEN h[i] ELSE M[i - 1]
             maxFlux == M[Len(h) - 1]
             avgFlux == RDiv(SumOver(h), RInt(Len(h)))
         IN  [tempo |-> 120,
              beatStrength |-> IF avgFlux.n > 0
                               THEN NMin(RInt(1), RDiv(maxFlux, RMul(avgFlux, RInt(3))))
                               ELSE RZero]

\* fluxHistory.shift() and its siblings
Tail3(fe) ==
    [fe EXCEPT !.fluxHistory = Tail(@), !.energyHistory = Tail(@), !.timeHistory = Tail(@)]

\* extractGlobalFeatures(energies, _cqtMagnitudes, time): returns
\* [fe |-> the extractor after the call, global |-> the features]
FeatureExtractor_extractGlobalFeatures(fe, energies, time) ==
    LET n == Len(energies)
        squares == SumOver([i \in 1..n |-> RMul(energies[i], energies[i])])
        loudness == IF n = 0 THEN NaN ELSE NSqrt(RDiv(squares, RInt(n)))
        weightedSum == SumOver([i \in 1..n |-> RMul(RInt(i - 1), energies[i])])
        energySum == SumOver(energies)
        spectralCentroid == IF energySum.n > 0 THEN RDiv(weightedSum, energySum) ELSE RZero
        entropy == IF energySum.n > 0 THEN FeatureExtractor_entropy(energies, energySum)
                   ELSE RZero
        pushed == [fe EXCEPT !.fluxHistory = Append(@, energySum),
                             !.energyHistory = Append(@, loudness),
                             !.timeHistory = Append(@, time)]
        bounded == IF Len(pushed.fluxHistory) > fe.maxHistoryLength
                   THEN Tail3(pushed) ELSE pushed
        estimate == FeatureExtractor_estimateTempo(bounded)
    IN  [fe |-> bounded,
         global |-> [tempo |-> estimate.tempo, beatStrength |-> estimate.beatStrength,
                     loudness |-> loudness, spectralCentroid |-> spectralCentroid,
                     entropy |-> entropy]]

\* extractFeatures(cqtMagnitudes, cqtPhases, time): returns
\* [fe |-> the extractor after the call, bands |-> ..., global |-> ...]
FeatureExtractor_extractFeatures(fe, cqtMagnitudes, cqtPhases, time) ==
    LET numBands == IF Len(cqtMagnitudes) < fe.numBands THEN Len(cqtMagnitudes)
                    ELSE fe.numBands
        energies == [i \in 1..numBands |-> DbToLinear(cqtMagnitudes[i])]
        hasPhase(b) == cqtPhases.given /\ b <= Len(cqtPhases.p)
        envelopeEMA == [b \in 1..numBands |->
                          FeatureExtractor_ema(fe.envelopeEMA[b], energies[b], fe.alphaEMA)]
        fluxEMA == [b \in 1..numBands |->
                      FeatureExtractor_ema(fe.fluxEMA[b],
                          NMax(RZero, NSub(energies[b], fe.previousEnergies[b])),
                          fe.alphaEMA)]
        centroidEMA == [b \in 1..numBands |->
                          FeatureExtractor_ema(fe.centroidEMA[b],
                              FeatureExtractor_computeBandCentroid(cqtMagnitudes, b - 1),
                              fe.alphaEMA)]
        bands == [b \in 1..numBands |->
                    [envelope |-> envelopeEMA[b],
                     flux |-> fluxEMA[b],
                     instantaneousFreq |->
                         IF hasPhase(b)
                         THEN FeatureExtractor_instantaneousFreq(
                                  RSub(cqtPhases.p[b], fe.previousPhases[b]))
                         ELSE RZero,
                     chroma |-> FeatureExtractor_computeChroma(cqtMagnitudes, b - 1),
                     energy |-> energies[b],
                     centroid |-> centroidEMA[b]]]
        fe1 == [fe EXCEPT
                  !.envelopeEMA = [b \in DOMAIN @ |-> IF b <= numBands THEN envelopeEMA[b] ELSE @[b]],
                  !.fluxEMA = [b \in DOMAIN @ |-> IF b <= numBands THEN fluxEMA[b] ELSE @[b]],
                  !.centroidEMA = [b \in DOMAIN @ |-> IF b <= numBands THEN centroidEMA[b] ELSE @[b]],
                  !.previousEnergies = [b \in DOMAIN @ |-> IF b <= numBands THEN energies[b] ELSE @[b]],
                  !.previousPhases = [b \in DOMAIN @ |-> IF b <= numBands /\ hasPhase(b)
                                                         THEN cqtPhases.p[b] ELSE @[b]]]
        g == FeatureExtractor_extractGlobalFeatures(fe1, energies, time)
    IN  [fe |-> g.fe, bands |-> bands, global |-> g.global]

\* detectOnsets(bands): flux > 0.1, a term when the flux is one
FeatureExtractor_detectOnsets(bands) ==
    [i \in DOMAIN bands |->
        IF IsRat(bands[i].flux)
        THEN [kind |-> "boolean", value |-> RLess(Rat(1, 10), bands[i].flux)]
        ELSE [kind |-> "greater", a |-> bands[i].flux, b |-> Rat(1, 10)]]

\* reset()
FeatureExtractor_resetHistories(fe) ==
    [fe EXCEPT !.previousEnergies = [b \in DOMAIN @ |-> RZero],
               !.previousPhases = [b \in DOMAIN @ |-> RZero],
               !.fluxHistory = << >>,
               !.energyHistory = << >>,
               !.timeHistory = << >>]
FeatureExtractor_reset(fe) ==
    [fe EXCEPT !.previousEnergies = [b \in DOMAIN @ |-> RZero],
               !.previousPhases = [b \in DOMAIN @ |-> RZero],
               !.fluxHistory = << >>,
               !.energyHistory = << >>,
               !.timeHistory = << >>,
               !.envelopeEMA = [b \in DOMAIN @ |-> RZero],
               !.fluxEMA = [b \in DOMAIN @ |-> RZero],
               !.centroidEMA = [b \in DOMAIN @ |-> RZero]]

(***************************************************************************)
(* ParameterMapper                                                         *)
(***************************************************************************)
\* Math.log(1 + x)
NLog1p(x) == IF x = RZero THEN RZero ELSE [kind |-> "log", of |-> NAdd(RInt(1), x)]

\* c ? x : y for a condition that is a boolean or a term
Conditional(c, x, y) ==
    IF c.kind = "boolean" THEN (IF c.value THEN x ELSE y)
    ELSE [kind |-> "if", condition |-> c, then |-> x, else |-> y]

\* new ParameterMapper(): smoothingAlpha = 0.1, previousParams = new Map()
ParameterMapper_new == [smoothingAlpha |-> Rat(1, 10), previousParams |-> << >>]

\* smooth(previous, current)
ParameterMapper_smooth(pm, previous, current) ==
    NAdd(NMul(previous, NSub(RInt(1), pm.smoothingAlpha)),
         NMul(current, pm.smoothingAlpha))

\* chroma[i] > maxValue for entries of one vector, which share coef and over
ChromaGreater(a, b) == a.coef.n > 0 /\ a.dist < b.dist

\* getDominantChroma(chroma)
ParameterMapper_getDominantChroma(chroma) ==
    LET M[i \in 0..11] ==
            IF i = 0 THEN 0
            ELSE IF ChromaGreater(chroma[i], chroma[M[i - 1]]) THEN i ELSE M[i - 1]
    IN  M[11]

\* mapBandFeatures(bandIndex, bandFeatures, globalFeatures, hasOnset): returns
\* [pm |-> the mapper after the call, ret |-> the parameters]
ParameterMapper_mapBandFeatures(pm, bandIndex, bandFeatures, globalFeatures, hasOnset) ==
    LET known == bandIndex \in DOMAIN pm.previousParams
        prev(field, raw) == IF known THEN pm.previousParams[bandIndex][field] ELSE raw
        rawThickness == NAdd(Rat(1, 10), NMul(Rat(1, 2), NLog1p(bandFeatures.envelope)))
        rawAlpha == Conditional(hasOnset, RInt(1),
                        NMax(Rat(3, 10), NMul(bandFeatures.envelope, Rat(7, 10))))
        dominantChroma == ParameterMapper_getDominantChroma(bandFeatures.chroma)
        rawChroma == NMin(RInt(1), NMul(bandFeatures.flux, RInt(2)))
        rawLuminance == NSub(RInt(1), NMin(RInt(1), NMul(globalFeatures.loudness, Rat(1, 2))))
        rawDiffusion == NAdd(Rat(1, 100), NMul(Rat(1, 20), bandFeatures.envelope))
        rawFlowFreq == NAdd(RInt(1), NMul(Rat(1, 2), NMul(bandFeatures.centroid, Rat(1, 36))))
        params ==
            [thickness |-> ParameterMapper_smooth(pm, prev("thickness", rawThickness), rawThickness),
             alpha |-> ParameterMapper_smooth(pm, prev("alpha", rawAlpha), rawAlpha),
             colorHue |-> Rat(dominantChroma, 12),
             colorChroma |-> ParameterMapper_smooth(pm, prev("colorChroma", rawChroma), rawChroma),
             colorLuminance |->
                 ParameterMapper_smooth(pm, prev("colorLuminance", rawLuminance), rawLuminance),
             diffusion |-> ParameterMapper_smooth(pm, prev("diffusion", rawDiffusion), rawDiffusion),
             flowFrequency |->
                 ParameterMapper_smooth(pm, prev("flowFrequency", rawFlowFreq), rawFlowFreq),
             flowIntensity |-> bandFeatures.envelope,
             lorenzSigma |-> NAdd(RInt(10), NMul(RInt(2), NMul(bandFeatures.centroid, Rat(1, 36)))),
             lorenzRho |-> NAdd(RInt(28), NMul(RInt(10), globalFeatures.loudness)),
             lorenzBeta |-> NAdd(Rat(8, 3), NMul(RInt(1), bandFeatures.flux)),
             driftSpeed |-> RAdd(Rat(1, 2), RMul(Rat(bandIndex, 36), Rat(1, 2))),
             turbulence |-> NMul(globalFeatures.entropy, Rat(1, 5))]
    IN  [pm |-> [pm EXCEPT !.previousParams =
                    [k \in DOMAIN @ \cup {bandIndex} |->
                        IF k = bandIndex THEN params ELSE @[k]]],
         ret |-> params]

\* reset(): previousParams.clear()
ParameterMapper_reset(pm) == [pm EXCEPT !.previousParams = << >>]

(***************************************************************************)
(* AudioProcessor playback state.  now is audioContext.currentTime; source *)
(* tells whether this.source is set.                                       *)
(***************************************************************************)
\* private sampleRate: number = 44100
SAMPLE_RATE == 44100

NoBuffer == [given |-> FALSE, duration |-> RZero]
Buffer(duration) == [given |-> TRUE, duration |-> duration]

AudioProcessor_new ==
    [audioBuffer |-> NoBuffer, source |-> FALSE, playbackOffset |-> RZero,
     startTime |-> RZero, isPlaying |-> FALSE]

\* pause()
AudioProcessor_pause(a, now) ==
    IF a.source /\ a.isPlaying
    THEN [a EXCEPT !.playbackOffset =
                       IF a.audioBuffer.given
                       THEN NMin(RSub(now, a.startTime), a.audioBuffer.duration) ELSE @,
                   !.source = FALSE,
                   !.isPlaying = FALSE]
    ELSE a

\* stop()
AudioProcessor_stop(a, now) == [AudioProcessor_pause(a, now) EXCEPT !.playbackOffset = RZero]

\* play()
AudioProcessor_play(a, now) ==
    IF ~a.audioBuffer.given \/ a.isPlaying THEN a
    ELSE IF RLess(RZero, RSub(a.audioBuffer.duration, a.playbackOffset))
         THEN [a EXCEPT !.source = TRUE,
                        !.startTime = RSub(now, a.playbackOffset),
                        !.isPlaying = TRUE]
         ELSE [a EXCEPT !.source = TRUE, !.isPlaying = FALSE, !.playbackOffset = RZero]

\* seek(time)
AudioProcessor_seek(a, time, now) ==
    IF ~a.audioBuffer.given THEN a
    ELSE LET paused == AudioProcessor_pause(a, now)
             moved == [paused EXCEPT !.playbackOffset =
                          NMax(RZero, NMin(time, a.audioBuffer.duration))]
         IN  IF a.isPlaying THEN AudioProcessor_play(moved, now) ELSE moved

\* getCurrentTime()
AudioProcessor_getCurrentTime(a, now) ==
    IF ~a.isPlaying \/ ~a.audioBuffer.given THEN a.playbackOffset
    ELSE NMin(RSub(now, a.startTime), a.audioBuffer.duration)

\* the onended handler play() attaches to the source it creates
AudioProcessor_onended(a) ==
    [a EXCEPT !.isPlaying = FALSE, !.playbackOffset = RZero, !.source = FALSE]

\* loadAudioFile(file): decoded is the buffer decodeAudioData resolved with,
\* NoBuffer when it rejected; returns [audio, failed]
AudioProcessor_loadAudioFile(a, decoded, now) ==
    LET halted == [AudioProcessor_pause(a, now) EXCEPT !.playbackOffset = RZero]
    IN  IF decoded.given
        THEN [audio |-> [halted EXCEPT !.audioBuffer = decoded], failed |-> FALSE]
        ELSE [audio |-> halted, failed |-> TRUE]

(***************************************************************************)
(* AudioProcessor: the constant-Q frequency map and getCQTData.            *)
(* Math.pow(2, k / 12) is irrational for k = 1 .. 11: the model carries a  *)
(* pair (lo, hi) of numbers that enclose the real value.  Frequencies are  *)
(* integers in units of 1 / FREQ_SCALE Hz, rounded down in lo and up in    *)
(* hi.  A floor or ceil is the integer both ends agree on; the enclosures  *)
(* are tight enough for that at every band and sample rate explored, and   *)
(* evaluation stops rather than pick a value if they were not.  A packed   *)
(* 32-bit word is a limb pair.                                             *)
(***************************************************************************)
FREQ_SCALE == 10000

\* numBands, minFreq, maxFreq, binsPerOctave as initialised; analyser.fftSize
MIN_FREQ == 55
MAX_FREQ == 8000
BINS_PER_OCTAVE == 12
FFT_SIZE == 4096
DEFAULT_NUM_BANDS == 36

\* floor(a * b / c) and ceil(a * b / c) for a >= 0, b > 0, c > 0 without
\* forming a * b
MulDivFloor(a, b, c) == (a \div c) * b + ((a % c) * b) \div c
MulDivCeil(a, b, c) == (a \div c) * b + ((a % c) * b + c - 1) \div c
\* the same for a of either sign
FloorMulDiv(a, b, c) == IF a >= 0 THEN MulDivFloor(a, b, c) ELSE 0 - MulDivCeil(0 - a, b, c)
CeilMulDiv(a, b, c) == IF a >= 0 THEN MulDivCeil(a, b, c) ELSE 0 - MulDivFloor(0 - a, b, c)

\* fractions <<n, d>> with SemitoneBelow[k + 1] <= 2^(k / 12) <= SemitoneAbove[k + 1]
SemitoneBelow ==
    <<<<1, 1>>, <<26797, 25293>>, <<12273, 10934>>, <<19723, 16585>>,
      <<6064, 4813>>, <<6793, 5089>>, <<27720, 19601>>, <<23011, 15358>>,
      <<27870, 17557>>, <<9043, 5377>>, <<26547, 14899>>, <<17843, 9452>>>>
SemitoneAbove ==
    <<<<1, 1>>, <<18904, 17843>>, <<29798, 26547>>, <<10754, 9043>>,
      <<29685, 23561>>, <<23923, 17922>>, <<19601, 13860>>, <<10178, 6793>>,
      <<4813, 3032>>, <<24127, 14346>>, <<21868, 12273>>, <<14900, 7893>>>>

\* Math.pow(2, band / binsPerOctave), binsPerOctave = 12: [lo, hi] as fractions
AudioProcessor_pow2(band) ==
    LET octave == Pow2(band \div BINS_PER_OCTAVE)
        below == SemitoneBelow[(band % BINS_PER_OCTAVE) + 1]
        above == SemitoneAbove[(band % BINS_PER_OCTAVE) + 1]
    IN  [lo |-> <<octave * below[1], below[2]>>, hi |-> <<octave * above[1], above[2]>>]

\* Math.floor(Math.log2(maxFreq / minFreq) * binsPerOctave): the n with
\* 2^(n / 12) <= maxFreq / minFreq < 2^((n + 1) / 12)
AudioProcessor_numBands ==
    CHOOSE n \in 0..120 :
        /\ AudioProcessor_pow2(n).hi[1] * MIN_FREQ <= MAX_FREQ * AudioProcessor_pow2(n).hi[2]
        /\ MAX_FREQ * AudioProcessor_pow2(n + 1).lo[2] < AudioProcessor_pow2(n + 1).lo[1] * MIN_FREQ

\* the integer that lies in lo .. hi, when that determines it
Enclosed(lo, hi) == CHOOSE i \in {lo} : i = hi

\* the body of the loop of initCQTFreqMap for one band: startBin and endBin
AudioProcessor_bandBins(band, sampleRate) ==
    LET nyquist == Rat(sampleRate, 2)
        fftBinWidth == RDiv(nyquist, Rat(FFT_SIZE, 2))
        pow == AudioProcessor_pow2(band)
        centerLo == MulDivFloor(MIN_FREQ * pow.lo[1], FREQ_SCALE, pow.lo[2])
        centerHi == MulDivCeil(MIN_FREQ * pow.hi[1], FREQ_SCALE, pow.hi[2])
        \* Q = Math.pow(2, 1 / binsPerOctave) - 1, as fractions
        semitone == AudioProcessor_pow2(1)
        qLo == <<semitone.lo[1] - semitone.lo[2], semitone.lo[2]>>
        qHi == <<semitone.hi[1] - semitone.hi[2], semitone.hi[2]>>
        \* bandwidth = centerFreq / Q
        bandwidthLo == MulDivFloor(centerLo, qHi[2], qHi[1])
        bandwidthHi == MulDivCeil(centerHi, qLo[2], qLo[1])
        startLo == centerLo - ((bandwidthHi + 1) \div 2)
        startHi == centerHi - (bandwidthLo \div 2)
        endLo == centerLo + (bandwidthLo \div 2)
        endHi == centerHi + ((bandwidthHi + 1) \div 2)
        floorOf(f) == FloorMulDiv(f, fftBinWidth.d, fftBinWidth.n) \div FREQ_SCALE
        ceilOf(f) == 0 - ((0 - CeilMulDiv(f, fftBinWidth.d, fftBinWidth.n)) \div FREQ_SCALE)
    IN  [startBin |-> Enclosed(floorOf(startLo), floorOf(startHi)),
         endBin |-> Enclosed(ceilOf(endLo), ceilOf(endHi))]

\* (startBin << 16) | (endBin & 0xFFFF) as a signed 32-bit word: the upper
\* limb is the low 16 bits of startBin, the lower limb those of endBin
AudioProcessor_pack(startBin, endBin) == U32(startBin % LIMB, endBin % LIMB)

\* (packed >> 16) & 0xFFFF and packed & 0xFFFF
AudioProcessor_unpack(packed) == [startBin |-> packed[1], endBin |-> packed[2]]

NoContext == [given |-> FALSE]
Context(sampleRate) == [given |-> TRUE, sampleRate |-> sampleRate]
NoMap == [given |-> FALSE]

\* initCQTFreqMap(): numBands and cqtFreqMap; cqtFreqMap[band] of the code
\* is map[band + 1] here
AudioProcessor_initCQTFreqMap(sampleRate) ==
    [numBands |-> AudioProcessor_numBands,
     cqtFreqMap |->
        [given |-> TRUE,
         map |-> [b \in 1..AudioProcessor_numBands |->
                     LET bins == AudioProcessor_bandBins(b - 1, sampleRate)
                     IN  AudioProcessor_pack(bins.startBin, bins.endBin)]]]

\* initAudioContext(): the fields getCQTData reads.  With no AudioContext
\* the constructor throws before the analyser exists and before
\* initCQTFreqMap runs, and the field initialisers stay.
AudioProcessor_initAudioContext(context) ==
    IF context.given
    THEN LET m == AudioProcessor_initCQTFreqMap(context.sampleRate)
         IN  [sampleRate |-> context.sampleRate, analyser |-> TRUE,
              frequencyBinCount |-> FFT_SIZE \div 2,
              numBands |-> m.numBands, cqtFreqMap |-> m.cqtFreqMap]
    ELSE [sampleRate |-> SAMPLE_RATE, analyser |-> FALSE, frequencyBinCount |-> 0,
          numBands |-> DEFAULT_NUM_BANDS, cqtFreqMap |-> NoMap]

\* freqData[from] + ... + freqData[to], added up by halves
RECURSIVE SumBins(_, _, _)
SumBins(freqData, from, to) ==
    IF from > to THEN RZero
    ELSE IF from = to THEN freqData.at[from]
    ELSE LET mid == (from + to) \div 2
         IN  RAdd(SumBins(freqData, from, mid), SumBins(freqData, mid + 1, to))

\* the inner loop of getCQTData: sum and count over
\* j = startBin .. endBin with j < freqData.length; freqData[j] is freqData.at[j]
AudioProcessor_aggregate(freqData, startBin, endBin) ==
    LET last == IF endBin < freqData.length THEN endBin ELSE freqData.length - 1
    IN  IF last < startBin THEN [sum |-> RZero, count |-> 0]
        ELSE [sum |-> SumBins(freqData, startBin, last), count |-> last - startBin + 1]

\* the value of one band: count > 0 ? sum / count : -100
AudioProcessor_bandValue(freqData, bins) ==
    LET a == AudioProcessor_aggregate(freqData, bins.startBin, bins.endBin)
    IN  IF a.count > 0 THEN RDiv(a.sum, RInt(a.count)) ELSE RInt(-100)

\* new Float32Array(numBands)
ZeroArray(n) == [b \in 1..n |-> RZero]

\* getCQTData(): freqData is what the analyser wrote into frequencyData
AudioProcessor_getCQTData(a, freqData) ==
    IF ~a.analyser \/ ~a.cqtFreqMap.given THEN ZeroArray(a.numBands)
    ELSE [b \in 1..a.numBands |->
             AudioProcessor_bandValue(freqData, AudioProcessor_unpack(a.cqtFreqMap.map[b]))]

\* getNumBands()
AudioProcessor_getNumBands(a) == a.numBands

(***************************************************************************)
(* Visualizer: the components it creates and its handlers.  clock is the   *)
(* time both performance.now() and audioContext.currentTime measure.       *)
(* sinceEvent is the lifecycle event after which no frame has run yet and  *)
(* unreset the components not reset since it; missed is what unreset held  *)
(* when the last frame ran.                                                *)
(***************************************************************************)
CoreComponents == {"featureExtractor", "parameterMapper", "bandManager"}

Visualizer_new ==
    [audioProcessor |-> AudioProcessor_new,
     featureExtractor |-> FeatureExtractor_new(NumBands, SAMPLE_RATE),
     parameterMapper |-> ParameterMapper_new,
     bandManager |-> BandManager_new(NumBands, InstancesPerBand),
     isPlaying |-> FALSE,
     startTime |-> RZero,
     clock |-> RZero,
     sinceEvent |-> "none",
     unreset |-> {},
     missed |-> {}]

\* the loop of animate over bandFeatures
Visualizer_mapBands(v, bandFeatures, globalFeatures, onsets) ==
    LET M[b \in 0..Len(bandFeatures)] ==
            IF b = 0 THEN v
            ELSE LET m == ParameterMapper_mapBandFeatures(M[b - 1].parameterMapper,
                              b - 1, bandFeatures[b], globalFeatures, onsets[b])
                 IN  [M[b - 1] EXCEPT
                        !.parameterMapper = m.pm,
                        !.bandManager = BandManager_updateBandParameters(@, b - 1, m.ret)]
    IN  M[Len(bandFeatures)]

\* animate(): one frame of the render loop up to renderer.render(), with the
\* array getCQTData() returned and the time that passed since the last frame
Visualizer_animate(v, cqtData, elapsed) ==
    LET now == RAdd(v.clock, elapsed)
        currentTime == RSub(now, v.startTime)
        f == FeatureExtractor_extractFeatures(v.featureExtractor, cqtData, NoPhases,
                                              currentTime)
        onsets == FeatureExtractor_detectOnsets(f.bands)
        v1 == [v EXCEPT !.clock = now,
                        !.featureExtractor = f.fe,
                        !.missed = IF v.sinceEvent = "none" THEN {} ELSE v.unreset,
                        !.sinceEvent = "none",
                        !.unreset = {}]
    IN  Visualizer_mapBands(v1, f.bands, f.global, onsets)

\* handleFileUpload(file)
Visualizer_handleFileUpload(v, decoded) ==
    LET r == AudioProcessor_loadAudioFile(v.audioProcessor, decoded, v.clock)
    IN  IF r.failed
        THEN [v EXCEPT !.audioProcessor = r.audio]
        ELSE [v EXCEPT !.audioProcessor = r.audio,
                       !.featureExtractor = FeatureExtractor_reset(@),
                       !.bandManager = BandManager_reset(@),
                       !.sinceEvent = "load",
                       !.unreset = CoreComponents \ {"featureExtractor", "bandManager"}]

\* handlePlayPause()
Visualizer_handlePlayPause(v) ==
    IF v.isPlaying
    THEN [v EXCEPT !.audioProcessor = AudioProcessor_pause(@, v.clock),
                   !.isPlaying = FALSE]
    ELSE [v EXCEPT !.audioProcessor = AudioProcessor_play(@, v.clock),
                   !.isPlaying = TRUE,
                   !.startTime = v.clock]

\* handleStop()
Visualizer_handleStop(v) ==
    [v EXCEPT !.audioProcessor = AudioProcessor_stop(@, v.clock),
              !.isPlaying = FALSE,
              !.featureExtractor = FeatureExtractor_reset(@),
              !.bandManager = BandManager_reset(@),
              !.parameterMapper = ParameterMapper_reset(@),
              !.startTime = v.clock,
              !.sinceEvent = "stop",
              !.unreset = {}]

\* handleSeek(time)
Visualizer_handleSeek(v, time) ==
    IF v.audioProcessor.audioBuffer.given
    THEN [v EXCEPT !.audioProcessor = AudioProcessor_seek(@, time, v.clock),
                   !.sinceEvent = "seek",
                   !.unreset = CoreComponents]
    ELSE v

(***************************************************************************)
(* Two generator instances driven by calls                                 *)
(***************************************************************************)
Inst == {"A", "B"}

\* the seed whose successor under the generator is 0xFFFFFFFF
SeedBeforeMax == U32(9973, 46880)
RngSeeds == {U32(0, 0), U32(0, 1), U32(0, 42), SeedBeforeMax, U32(65535, 65535)}
RngMeans == {0, 1}
RngStdDevs == {1, 2}

NoValue == [kind |-> "none"]

notRng == <<sdeVars, attVars, tbVars, lsVars, fnVars, vizVars, fxVars, pbVars>>
notSde == <<rngVars, attVars, tbVars, lsVars, fnVars, vizVars, fxVars, pbVars>>
notAtt == <<rngVars, sdeVars, tbVars, lsVars, fnVars, vizVars, fxVars, pbVars>>
notTb == <<rngVars, sdeVars, attVars, lsVars, fnVars, vizVars, fxVars, pbVars>>
notLs == <<rngVars, sdeVars, attVars, tbVars, fnVars, vizVars, fxVars, pbVars>>
notFn == <<rngVars, sdeVars, attVars, tbVars, lsVars, vizVars, fxVars, pbVars>>
notViz == <<rngVars, sdeVars, attVars, tbVars, lsVars, fnVars, fxVars, pbVars>>
notFx == <<rngVars, sdeVars, attVars, tbVars, lsVars, fnVars, vizVars, pbVars>>
notPb == <<rngVars, sdeVars, attVars, tbVars, lsVars, fnVars, vizVars, fxVars>>

RngInit ==
    /\ \E s \in RngSeeds : rng = [o \in Inst |-> s]
    /\ rngOut = [o \in Inst |-> NoValue]
    /\ rngSynced = TRUE
    /\ rngCalls = 0

RngIdle ==
    /\ rng = [o \in Inst |-> U32(0, 0)]
    /\ rngOut = [o \in Inst |-> NoValue]
    /\ rngSynced = TRUE
    /\ rngCalls = 0

\* one instance is used on its own: the two histories now differ
RngSoloNext(o) ==
    /\ rngCalls < MaxRngCalls
    /\ LET r == RNG_next(rng[o])
       IN  /\ rng' = [rng EXCEPT ![o] = r.seed]
           /\ rngOut' = [rngOut EXCEPT ![o] = r.value]
    /\ rngSynced' = FALSE
    /\ rngCalls' = rngCalls + 1
    /\ UNCHANGED notRng

\* the same call on both instances
RngBoth(result) ==
    /\ rngCalls < MaxRngCalls
    /\ rng' = [o \in Inst |-> result[o].seed]
    /\ rngOut' = [o \in Inst |-> result[o].value]
    /\ rngCalls' = rngCalls + 1
    /\ UNCHANGED <<rngSynced, notRng>>

RngSetSeed ==
    \E s \in RngSeeds :
        /\ rngCalls < MaxRngCalls
        /\ rng' = [o \in Inst |-> RNG_setSeed(rng[o], s)]
        /\ rngOut' = [o \in Inst |-> NoValue]
        /\ rngSynced' = TRUE
        /\ rngCalls' = rngCalls + 1
        /\ UNCHANGED notRng

RngNext ==
    RngBoth([o \in Inst |-> RNG_next(rng[o])])

RngNextRange ==
    \E min \in {0}, max \in {1, 10} :
        RngBoth([o \in Inst |-> RNG_nextRange(rng[o], min, max)])

RngNextGaussian ==
    \E m \in RngMeans, sd \in RngStdDevs :
        RngBoth([o \in Inst |-> RNG_nextGaussian(rng[o], m, sd)])

RngNextGaussian3D ==
    \E m \in RngMeans, sd \in RngStdDevs :
        RngBoth([o \in Inst |->
                    LET g == RNG_nextGaussian3D(rng[o], <<m, m, m>>, sd)
                    IN  [seed |-> g.seed,
                         value |-> [kind |-> "gauss3d", axes |-> g.value]]])

(***************************************************************************)
(* Two integrators with constructor seeds and histories of their own       *)
(***************************************************************************)
SdeSeeds == {U32(0, 0), U32(0, 7), SeedBeforeMax}
\* <<position, drift, volatility, dt>>
SdeArgs ==
    { <<<<RInt(0), RInt(0), RInt(0)>>, <<RInt(1), RInt(0), RInt(0)>>, RZero, Rat(1, 10)>>,
      <<<<RInt(1), RInt(-2), Rat(1, 2)>>, <<RInt(2), Rat(-1, 2), RInt(3)>>, Rat(1, 2), RZero>>,
      <<<<RInt(0), RInt(0), RInt(0)>>, <<RInt(2), Rat(-1, 2), RInt(3)>>, Rat(1, 2), RInt(1)>>,
      <<<<RInt(1), RInt(-2), Rat(1, 2)>>, <<RInt(1), RInt(0), RInt(0)>>, RZero, RZero>> }

NoCall == [op |-> "none"]
StepCall(position, drift, volatility, dt, seed) ==
    [op |-> "step", position |-> position, drift |-> drift,
     volatility |-> volatility, dt |-> dt, seed |-> seed]

SdeInit ==
    /\ sde \in [Inst -> SdeSeeds]        \* new SDEIntegrator(seed)
    /\ sdeRet = [o \in Inst |-> <<NoValue, NoValue, NoValue>>]
    /\ sdeCall = [o \in Inst |-> NoCall]
    /\ sdeJoint = FALSE
    /\ sdeCalls = 0

SdeIdle ==
    /\ sde = [o \in Inst |-> U32(0, 0)]
    /\ sdeRet = [o \in Inst |-> <<NoValue, NoValue, NoValue>>]
    /\ sdeCall = [o \in Inst |-> NoCall]
    /\ sdeJoint = FALSE
    /\ sdeCalls = 0

\* step() without a seed on one integrator: draws from its current state
SdeStepUnseeded(o) ==
    \E a \in SdeArgs :
      LET p == a[1]  mu == a[2]  vol == a[3]  dt == a[4] IN
        /\ sdeCalls < MaxSdeCalls
        /\ LET r == SDE_step(sde[o], p, mu, vol, dt, NoSeed)
           IN  /\ sde' = [sde EXCEPT ![o] = r.seed]
               /\ sdeRet' = [sdeRet EXCEPT ![o] = r.value]
        /\ sdeCall' = [sdeCall EXCEPT ![o] = StepCall(p, mu, vol, dt, NoSeed)]
        /\ sdeJoint' = FALSE
        /\ sdeCalls' = sdeCalls + 1
        /\ UNCHANGED notSde

\* step() with the same arguments and the same explicit seed on both
SdeStepSeeded ==
    \E a \in SdeArgs, s \in SdeSeeds :
      LET p == a[1]  mu == a[2]  vol == a[3]  dt == a[4] IN
        /\ sdeCalls < MaxSdeCalls
        /\ sde' = [o \in Inst |-> SDE_step(sde[o], p, mu, vol, dt, Seed(s)).seed]
        /\ sdeRet' = [o \in Inst |-> SDE_step(sde[o], p, mu, vol, dt, Seed(s)).value]
        /\ sdeCall' = [o \in Inst |-> StepCall(p, mu, vol, dt, Seed(s))]
        /\ sdeJoint' = TRUE
        /\ sdeCalls' = sdeCalls + 1
        /\ UNCHANGED notSde

\* setSeed(seed) on one integrator
SdeSetSeed(o) ==
    \E s \in SdeSeeds :
        /\ sdeCalls < MaxSdeCalls
        /\ sde' = [sde EXCEPT ![o] = RNG_setSeed(sde[o], s)]
        /\ sdeJoint' = FALSE
        /\ sdeCalls' = sdeCalls + 1
        /\ UNCHANGED <<sdeRet, sdeCall, notSde>>

(***************************************************************************)
(* One attractor driven by step, getDrift and setParams calls              *)
(***************************************************************************)
AttInitialStates ==
    { LorenzDefaultState,
      [x |-> RInt(-1), y |-> RInt(-1), z |-> RInt(-1)],
      [x |-> RInt(0), y |-> RInt(2), z |-> RInt(1)] }
AttDts == {LorenzDefaultDt, Rat(1, 2)}
\* Partial<LorenzParams> arguments: none of, some of, all of the fields
AttParamArgs ==
    { NoParams,
      Params(<< >>),
      Params([sigma |-> RInt(4)]),
      Params([rho |-> RInt(2), beta |-> RInt(1)]),
      Params([sigma |-> RInt(10), rho |-> RInt(28), beta |-> Rat(8, 3)]) }

NoOp == [op |-> "new", arg |-> NoParams]
NoRet == [kind |-> "none", v |-> << >>]

AttInit ==
    /\ \E s \in AttInitialStates, dt \in AttDts :
          att = Lorenz_new(s, LorenzDefaultParams, dt)
    /\ attPrev = att
    /\ attOp = NoOp
    /\ attRet = NoRet
    /\ attOps = 0

AttIdle ==
    /\ att = Lorenz_new(LorenzDefaultState, LorenzDefaultParams, LorenzDefaultDt)
    /\ attPrev = att
    /\ attOp = NoOp
    /\ attRet = NoRet
    /\ attOps = 0

AttStep ==
    \E arg \in AttParamArgs :
        /\ attOps < MaxAttOps
        /\ att' = Lorenz_step(att, arg).att
        /\ attRet' = [kind |-> "state", v |-> Lorenz_step(att, arg).ret]
        /\ attPrev' = att
        /\ attOp' = [op |-> "step", arg |-> arg]
        /\ attOps' = attOps + 1
        /\ UNCHANGED notAtt

AttGetDrift ==
    \E arg \in AttParamArgs :
        /\ attOps < MaxAttOps
        /\ att' = Lorenz_getDrift(att, arg).att
        /\ attRet' = [kind |-> "drift", v |-> Lorenz_getDrift(att, arg).ret]
        /\ attPrev' = att
        /\ attOp' = [op |-> "getDrift", arg |-> arg]
        /\ attOps' = attOps + 1
        /\ UNCHANGED notAtt

AttSetParams ==
    \E arg \in AttParamArgs \ {NoParams} :
        /\ attOps < MaxAttOps
        /\ att' = Lorenz_setParams(att, arg)
        /\ attRet' = NoRet
        /\ attPrev' = att
        /\ attOp' = [op |-> "setParams", arg |-> arg]
        /\ attOps' = attOps + 1
        /\ UNCHANGED notAtt

(***************************************************************************)
(* One trail buffer driven by addPoint, getTrail, resetInstance and reset  *)
(***************************************************************************)
TrailCapacities == {2, 4}
TrailInstances == 2
TrailPoints ==
    { <<RInt(1), RInt(0), RInt(0)>>,
      <<RInt(0), RInt(2), RInt(0)>>,
      <<RInt(0), RInt(0), RInt(3)>> }

NoTrail == [op |-> "none", i |-> 0, trail |-> << >>]

TbInit ==
    /\ \E c \in TrailCapacities : tb = TrailBuffer_new(TrailInstances, c)
    /\ tbWritten = [i \in 0..(TrailInstances - 1) |-> << >>]
    /\ tbRet = NoTrail
    /\ tbCalls = 0

TbIdle ==
    /\ tb = TrailBuffer_new(1, 1)
    /\ tbWritten = [i \in 0..0 |-> << >>]
    /\ tbRet = NoTrail
    /\ tbCalls = 0

TbAddPoint ==
    \E i \in DOMAIN tb.rings, p \in TrailPoints :
        /\ tbCalls < MaxTrailCalls
        /\ tb' = TrailBuffer_addPoint(tb, i, p)
        /\ tbWritten' = [tbWritten EXCEPT ![i] = Append(@, p)]
        /\ tbRet' = NoTrail
        /\ tbCalls' = tbCalls + 1
        /\ UNCHANGED notTb

TbGetTrail ==
    \E i \in DOMAIN tb.rings :
        /\ tbCalls < MaxTrailCalls
        /\ tbRet' = [op |-> "getTrail", i |-> i, trail |-> TrailBuffer_getTrail(tb, i)]
        /\ tbCalls' = tbCalls + 1
        /\ UNCHANGED <<tb, tbWritten, notTb>>

TbResetInstance ==
    \E i \in DOMAIN tb.rings :
        /\ tbCalls < MaxTrailCalls
        /\ tb' = TrailBuffer_resetInstance(tb, i)
        /\ tbWritten' = [tbWritten EXCEPT ![i] = << >>]
        /\ tbRet' = NoTrail
        /\ tbCalls' = tbCalls + 1
        /\ UNCHANGED notTb

TbReset ==
    /\ tbCalls < MaxTrailCalls
    /\ tb' = TrailBuffer_reset(tb)
    /\ tbWritten' = [i \in DOMAIN tbWritten |-> << >>]
    /\ tbRet' = NoTrail
    /\ tbCalls' = tbCalls + 1
    /\ UNCHANGED notTb

(***************************************************************************)
(* Two orchestrators constructed alike and given the same calls            *)
(***************************************************************************)
\* arguments of update(): <<time, cqtData, tempo, beatStrength>>, with
\* magnitudes in dB and one magnitude array shorter than the number of bands
FrameInputs ==
    { <<RZero, <<-100, -40>>, 120, RZero>>,
      <<Rat(1, 60), <<-100, -40>>, 120, Rat(1, 2)>>,
      <<Rat(21, 20), <<-40>>, 120, Rat(1, 2)>>,
      <<Rat(21, 20), <<-100, -40>>, 90, RZero>> }

\* parameter sets handed to updateBandParameters
CalmParameters ==
    [thickness |-> Rat(1, 5), alpha |-> Rat(1, 2), colorHue |-> RInt(0),
     colorChroma |-> Rat(1, 2), colorLuminance |-> Rat(7, 10),
     diffusion |-> RZero, flowFrequency |-> RInt(1), flowIntensity |-> Rat(1, 2),
     lorenzSigma |-> RInt(10), lorenzRho |-> RInt(28), lorenzBeta |-> Rat(8, 3),
     driftSpeed |-> RInt(1), turbulence |-> RZero]
BusyParameters ==
    [thickness |-> Rat(1, 10), alpha |-> RInt(1), colorHue |-> RInt(180),
     colorChroma |-> RInt(1), colorLuminance |-> Rat(1, 2),
     diffusion |-> Rat(1, 50), flowFrequency |-> RInt(2), flowIntensity |-> RInt(1),
     lorenzSigma |-> RInt(12), lorenzRho |-> RInt(30), lorenzBeta |-> RInt(3),
     driftSpeed |-> Rat(1, 2), turbulence |-> RInt(1)]
ParameterSets == {CalmParameters, BusyParameters}

NoFrame == [given |-> FALSE]
Frame(time, cqtData, tempo, beatStrength) ==
    [given |-> TRUE, time |-> time, cqtData |-> cqtData, tempo |-> tempo,
     beatStrength |-> beatStrength]

LsInit ==
    /\ ls = [o \in Inst |-> LineSystem_new(BandManager_new(NumBands, InstancesPerBand))]
    /\ lsFrame = NoFrame
    /\ lsFrames = << >>
    /\ lsAgree = [b \in 0..(NumBands - 1) |-> TRUE]
    /\ lsReset = FALSE
    /\ lsCalls = 0

LsIdle ==
    /\ ls = << >>
    /\ lsFrame = NoFrame
    /\ lsFrames = << >>
    /\ lsAgree = << >>
    /\ lsReset = FALSE
    /\ lsCalls = 0

\* bandManager.updateBandParameters(b, parameters) on both orchestrators
LsUpdateBandParameters ==
    /\ lsCalls < MaxLineCalls
    /\ \E b \in 0..(NumBands - 1), parameters \in ParameterSets :
           ls' = [o \in Inst |->
                    [ls[o] EXCEPT !.bandManager =
                        BandManager_updateBandParameters(@, b, parameters)]]
    /\ lsCalls' = lsCalls + 1
    /\ UNCHANGED <<lsFrame, lsFrames, lsAgree, lsReset, notLs>>

\* lineSystem.update(time, cqtData, tempo, beatStrength) on both orchestrators
LsUpdate ==
    /\ lsCalls < MaxLineCalls
    /\ \E in \in FrameInputs :
           /\ ls' = [o \in Inst |-> LineSystem_update(ls[o], in[1], in[2], in[3], in[4])]
           /\ lsFrame' = Frame(in[1], in[2], in[3], in[4])
           /\ lsFrames' = Append(lsFrames, Frame(in[1], in[2], in[3], in[4]))
    /\ lsCalls' = lsCalls + 1
    /\ UNCHANGED <<lsAgree, lsReset, notLs>>

\* bandManager.reset() on both orchestrators
LsBandReset ==
    /\ lsCalls < MaxLineCalls
    /\ ls' = [o \in Inst |-> [ls[o] EXCEPT !.bandManager = BandManager_reset(@)]]
    /\ lsCalls' = lsCalls + 1
    /\ UNCHANGED <<lsFrame, lsFrames, lsAgree, lsReset, notLs>>

\* The two orchestrators given inputs that differ for one band: frame B has
\* another magnitude (-20 dB) for band `other` and another beat strength
ApartFrames ==
    { <<Rat(1, 60), [b \in 1..NumBands |-> -40 - b], 120, RZero>>,
      <<Rat(21, 20), [b \in 1..NumBands |-> -60], 90, Rat(1, 2)>> }

LsUpdateApart ==
    /\ lsCalls < MaxBandCalls
    /\ \E in \in ApartFrames, other \in 0..(NumBands - 1) :
           LET cqtB == [in[2] EXCEPT ![other + 1] = -20]
               beatB == RAdd(in[4], Rat(1, 4))
           IN  /\ ls' = [o \in Inst |->
                            LineSystem_update(ls[o], in[1],
                                IF o = "A" THEN in[2] ELSE cqtB, in[3],
                                IF o = "A" THEN in[4] ELSE beatB)]
               /\ lsFrame' = Frame(in[1], in[2], in[3], in[4])
               /\ lsFrames' = Append(lsFrames, Frame(in[1], in[2], in[3], in[4]))
               /\ lsAgree' = [lsAgree EXCEPT ![other] = FALSE]
    /\ lsCalls' = lsCalls + 1
    /\ UNCHANGED <<lsReset, notLs>>

\* bandManager.updateBandParameters(b, parameters) with different parameters
\* on the two orchestrators
LsParametersApart ==
    /\ lsCalls < MaxBandCalls
    /\ \E b \in 0..(NumBands - 1) :
           /\ ls' = [o \in Inst |->
                        [ls[o] EXCEPT !.bandManager =
                            BandManager_updateBandParameters(@, b,
                                IF o = "A" THEN CalmParameters ELSE BusyParameters)]]
           /\ lsAgree' = [lsAgree EXCEPT ![b] = FALSE]
    /\ lsCalls' = lsCalls + 1
    /\ UNCHANGED <<lsFrame, lsFrames, lsReset, notLs>>

\* Orchestrator A is used, then stopped and reset as handleStop does, then
\* both are given the same frames: B plays them from construction, A
\* replays them after its reset.  Playing are A alone before the reset and
\* both after it.
LsPlaying == IF lsReset THEN Inst ELSE {"A"}

LsPlayParameters ==
    /\ lsCalls < MaxReplayCalls
    /\ \E b \in 0..(NumBands - 1), parameters \in ParameterSets :
           ls' = [o \in Inst |->
                    IF o \in LsPlaying
                    THEN [ls[o] EXCEPT !.bandManager =
                             BandManager_updateBandParameters(@, b, parameters)]
                    ELSE ls[o]]
    /\ lsCalls' = lsCalls + 1
    /\ UNCHANGED <<lsFrame, lsFrames, lsAgree, lsReset, notLs>>

LsPlayUpdate ==
    /\ lsCalls < MaxReplayCalls
    /\ \E in \in FrameInputs :
           /\ ls' = [o \in Inst |->
                        IF o \in LsPlaying
                        THEN LineSystem_update(ls[o], in[1], in[2], in[3], in[4])
                        ELSE ls[o]]
           /\ lsFrame' = IF lsReset THEN Frame(in[1], in[2], in[3], in[4]) ELSE lsFrame
           /\ lsFrames' = IF lsReset
                          THEN Append(lsFrames, Frame(in[1], in[2], in[3], in[4]))
                          ELSE lsFrames
    /\ lsCalls' = lsCalls + 1
    /\ UNCHANGED <<lsAgree, lsReset, notLs>>

\* handleStop(): of what the line system reads, bandManager.reset()
LsStop ==
    /\ lsCalls < MaxReplayCalls
    /\ ~lsReset
    /\ ls["A"].updates > 0
    /\ ls' = [ls EXCEPT !["A"].bandManager = BandManager_reset(@)]
    /\ lsReset' = TRUE
    /\ lsCalls' = lsCalls + 1
    /\ UNCHANGED <<lsFrame, lsFrames, lsAgree, notLs>>

(***************************************************************************)
(* Operations called once on arguments from small sets                     *)
(***************************************************************************)
NoCallYet == [fn |-> "none"]

FnInit ==
    /\ fnCall = NoCallYet
    /\ fnRet = NoValue

FnIdle ==
    /\ fnCall = NoCallYet
    /\ fnRet = NoValue

\* coordinates of the positions handed to computeForce
ForceCoordinates == {RInt(-1), RZero, Rat(1, 10), RInt(1)}
ForcePositions ==
    {<<x, y, z>> : x \in ForceCoordinates, y \in {RZero, RInt(1)}, z \in {RZero}}
ForceOthers ==
    {<<x, y, z>> : x \in ForceCoordinates, y \in {RZero}, z \in {RZero, Rat(1, 10)}}
ForceOtherLists ==
    {<< >>} \cup {<<p>> : p \in ForceOthers}
            \cup {<<p, q>> : p \in {<<RInt(1), RZero, RZero>>}, q \in ForceOthers}

\* collisionAvoidance.computeForce(position, otherPositions)
FnComputeForce ==
    /\ fnCall = NoCallYet
    /\ \E position \in ForcePositions, otherPositions \in ForceOtherLists :
          /\ fnCall' = [fn |-> "computeForce", position |-> position,
                        otherPositions |-> otherPositions]
          /\ fnRet' = CollisionAvoidance_computeForce(position, otherPositions)
    /\ UNCHANGED notFn

\* arguments handed to computeDrift
DriftPositions == {<<RZero, RZero, RZero>>, <<RInt(1), Rat(1, 2), RInt(-1)>>}
DriftAttractors ==
    {Lorenz_new(LorenzDefaultState, LorenzDefaultParams, LorenzDefaultDt),
     Lorenz_new([x |-> Rat(1, 2), y |-> RInt(-1), z |-> RInt(2)],
                [sigma |-> RInt(12), rho |-> RInt(30), beta |-> RInt(3)],
                LorenzDefaultDt)}
DriftFlowFields ==
    {FlowField_new, FlowField_update(FlowField_new, Rat(1, 60), RInt(2), Rat(1, 2), Rat(1, 2))}
DriftIntegrators == {U32(0, 0), U32(0, 42)}
SdeWeights == {RZero, Rat(1, 5), Rat(3, 10)}
DriftWeights ==
    {<< >>, [sde |-> Rat(3, 10)], [attractor |-> Rat(1, 2)],
     EngineMixer_computeWeightsFromFeatures(CalmParameters),
     EngineMixer_computeWeightsFromFeatures(BusyParameters)}

\* engineMixer.computeDrift(position, attractor, flowField, sdeIntegrator,
\*                          parameters, weights)
FnComputeDrift ==
    /\ fnCall = NoCallYet
    /\ \E position \in DriftPositions, attractor \in DriftAttractors,
          flowField \in DriftFlowFields, sdeIntegrator \in DriftIntegrators,
          parameters \in ParameterSets, weights \in DriftWeights :
          /\ fnCall' = [fn |-> "computeDrift", position |-> position,
                        attractor |-> attractor, flowField |-> flowField,
                        sdeIntegrator |-> sdeIntegrator, parameters |-> parameters,
                        weights |-> weights]
          /\ fnRet' = EngineMixer_computeDrift(position, attractor, flowField,
                                               sdeIntegrator, parameters, weights)
    /\ UNCHANGED notFn

\* arguments handed to extractFeatures: magnitude arrays of the configured
\* length, one shorter and one longer, with and without phases
Magnitudes == {NegInfinity, RInt(-40), RInt(-20), RInt(0)}
MagnitudeArrays ==
    [1..NumBands -> Magnitudes]
        \cup {[b \in 1..(NumBands - 1) |-> RInt(-20)], [b \in 1..(NumBands + 1) |-> RInt(0)]}
PhaseArrays == {NoPhases, Phases([b \in 1..NumBands |-> RInt(4 * b)])}
FrameTimes == {RZero, Rat(1, 60)}
\* an extractor just constructed and one that has processed a frame
Extractors ==
    {FeatureExtractor_new(NumBands, SAMPLE_RATE),
     FeatureExtractor_extractFeatures(FeatureExtractor_new(NumBands, SAMPLE_RATE),
         [b \in 1..NumBands |-> RInt(0)], Phases([b \in 1..NumBands |-> RInt(1)]),
         RZero).fe}

\* featureExtractor.extractFeatures(cqtMagnitudes, cqtPhases, time)
FnExtractFeatures ==
    /\ fnCall = NoCallYet
    /\ \E fe \in Extractors, cqtMagnitudes \in MagnitudeArrays,
          cqtPhases \in PhaseArrays, time \in FrameTimes :
          /\ fnCall' = [fn |-> "extractFeatures", fe |-> fe,
                        cqtMagnitudes |-> cqtMagnitudes, cqtPhases |-> cqtPhases,
                        time |-> time]
          /\ fnRet' = FeatureExtractor_extractFeatures(fe, cqtMagnitudes, cqtPhases, time)
    /\ UNCHANGED notFn

\* features handed to mapBandFeatures, and mappers that have mapped no band,
\* band 0, and bands 0 and 1
MapBandFeatures ==
    [envelope : {RZero, RInt(1)}, flux : {RZero, Rat(1, 4)}, instantaneousFreq : {RZero},
     chroma : {FeatureExtractor_computeChroma(<<RInt(0), RInt(0)>>, 0)},
     energy : {RInt(1)}, centroid : {RZero, RInt(18)}]
MapGlobalFeatures ==
    [tempo : {120}, beatStrength : {RZero}, loudness : {RZero, Rat(1, 2)},
     spectralCentroid : {RZero}, entropy : {RZero, RInt(1)}]
MapOnsets == {[kind |-> "boolean", value |-> v] : v \in BOOLEAN}
LoudFeatures ==
    [envelope |-> RInt(1), flux |-> Rat(1, 4), instantaneousFreq |-> RZero,
     chroma |-> FeatureExtractor_computeChroma(<<RInt(0), RInt(0)>>, 0),
     energy |-> RInt(1), centroid |-> RInt(18)]
LoudGlobalFeatures ==
    [tempo |-> 120, beatStrength |-> RZero, loudness |-> Rat(1, 2),
     spectralCentroid |-> RZero, entropy |-> RInt(1)]
MappedOnce ==
    ParameterMapper_mapBandFeatures(ParameterMapper_new, 0, LoudFeatures,
        LoudGlobalFeatures, [kind |-> "boolean", value |-> TRUE]).pm
MappedTwice ==
    ParameterMapper_mapBandFeatures(MappedOnce, 1, LoudFeatures,
        LoudGlobalFeatures, [kind |-> "boolean", value |-> FALSE]).pm
Mappers == {ParameterMapper_new, MappedOnce, MappedTwice}

\* parameterMapper.mapBandFeatures(bandIndex, bandFeatures, globalFeatures, hasOnset)
FnMapBandFeatures ==
    /\ fnCall = NoCallYet
    /\ \E pm \in Mappers, bandIndex \in 0..1, bandFeatures \in MapBandFeatures,
          globalFeatures \in MapGlobalFeatures, hasOnset \in MapOnsets :
          /\ fnCall' = [fn |-> "mapBandFeatures", pm |-> pm, bandIndex |-> bandIndex,
                        bandFeatures |-> bandFeatures, globalFeatures |-> globalFeatures,
                        hasOnset |-> hasOnset]
          /\ fnRet' = ParameterMapper_mapBandFeatures(pm, bandIndex, bandFeatures,
                                                      globalFeatures, hasOnset)
    /\ UNCHANGED notFn

\* band counts: the 24 .. 36 the documentation names, the default of the
\* fields and the count initCQTFreqMap computes
BandCounts == (24..36) \cup {DEFAULT_NUM_BANDS, AudioProcessor_numBands}

\* new BandManager(numBands, 20)
FnNewBandManager ==
    /\ fnCall = NoCallYet
    /\ \E numBands \in BandCounts :
          /\ fnCall' = [fn |-> "newBandManager", numBands |-> numBands]
          /\ fnRet' = BandManager_new(numBands, 20)
    /\ UNCHANGED notFn

\* bandManager.reset() on a manager just constructed, on one whose band
\* parameters a frame has set and on one that was reset before
FnResetBandManager ==
    /\ fnCall = NoCallYet
    /\ \E numBands \in BandCounts, used \in {"new", "updated", "reset"} :
          LET fresh == BandManager_new(numBands, 20)
              m == IF used = "new" THEN fresh
                   ELSE IF used = "updated"
                        THEN BandManager_updateBandParameters(fresh, 0, BusyParameters)
                        ELSE BandManager_reset(fresh)
          IN  /\ fnCall' = [fn |-> "resetBandManager", numBands |-> numBands, used |-> used]
              /\ fnRet' = BandManager_reset(m)
    /\ UNCHANGED notFn

\* curlNoise.evaluate(x, y, z) on a field just constructed and on one a
\* frame has updated
CurlFields ==
    {CurlNoiseField_new, CurlNoiseField_update(CurlNoiseField_new, Rat(1, 60), RInt(2), Rat(1, 2))}
CurlCoordinates == {RInt(-1), RZero, Rat(1, 2)}

FnEvaluate ==
    /\ fnCall = NoCallYet
    /\ \E c \in CurlFields, x \in CurlCoordinates, y \in CurlCoordinates,
          z \in CurlCoordinates :
          /\ fnCall' = [fn |-> "evaluate", c |-> c, position |-> <<x, y, z>>]
          /\ fnRet' = CurlNoiseField_evaluate(c, x, y, z)
    /\ UNCHANGED notFn

\* evaluate at the six neighbours position +- epsilon along each axis
DivergencePositions == {<<RZero, RZero, RZero>>, <<Rat(1, 2), RInt(-1), RZero>>}

FnEvaluateAround ==
    /\ fnCall = NoCallYet
    /\ \E c \in CurlFields, p \in DivergencePositions :
          LET at(axis, sign) ==
                  [k \in 1..3 |->
                      IF k = axis THEN RAdd(p[k], RMul(RInt(sign), CURL_EPSILON))
                      ELSE p[k]]
              evaluate(q) == CurlNoiseField_evaluate(c, q[1], q[2], q[3])
          IN  /\ fnCall' = [fn |-> "evaluateAround", c |-> c, position |-> p]
              /\ fnRet' = [axis \in 1..3 |->
                              [plus |-> evaluate(at(axis, 1)),
                               minus |-> evaluate(at(axis, -1))]]
    /\ UNCHANGED notFn

\* getCQTData() on a processor constructed with and without an
\* AudioContext, for a few frames the analyser may have written
AudioContexts == {NoContext, Context(SAMPLE_RATE), Context(48000)}
FrequencyFrames ==
    {[length |-> FFT_SIZE \div 2, at |-> [j \in 0..(FFT_SIZE \div 2 - 1) |-> RInt(-100)]],
     [length |-> FFT_SIZE \div 2, at |-> [j \in 0..(FFT_SIZE \div 2 - 1) |-> RInt(-40)]],
     [length |-> FFT_SIZE \div 2,
      at |-> [j \in 0..(FFT_SIZE \div 2 - 1) |-> RInt(-20 - (j % 64))]]}

FnGetCQTData ==
    /\ fnCall = NoCallYet
    /\ \E context \in AudioContexts, freqData \in FrequencyFrames :
          LET a == AudioProcessor_initAudioContext(context)
          IN  /\ fnCall' = [fn |-> "getCQTData", a |-> a, freqData |-> freqData]
              /\ fnRet' = AudioProcessor_getCQTData(a, freqData)
    /\ UNCHANGED notFn

(***************************************************************************)
(* A Visualizer driven by its handlers and its render loop                 *)
(***************************************************************************)
\* arrays getCQTData() returns: the all-zero default, a loud frame, silence
CqtFrames ==
    {[b \in 1..NumBands |-> RInt(0)],
     [b \in 1..NumBands |-> RInt(-20 * b)],
     [b \in 1..NumBands |-> NegInfinity]}
FrameElapsed == Rat(1, 60)
DecodeResults == {NoBuffer, Buffer(RInt(2))}
SeekTimes == {RZero, RInt(1), RInt(3)}

NoHandler == [name |-> "none"]

VizInit ==
    /\ viz = Visualizer_new
    /\ vizPrev = Visualizer_new
    /\ vizOp = NoHandler
    /\ vizPrevOp = NoHandler
    /\ vizCalls = 0

VizIdle ==
    /\ viz = << >>
    /\ vizPrev = << >>
    /\ vizOp = NoHandler
    /\ vizPrevOp = NoHandler
    /\ vizCalls = 0

\* what every handler leaves behind
VizRan(op) ==
    /\ vizPrev' = viz
    /\ vizOp' = op
    /\ vizPrevOp' = vizOp
    /\ vizCalls' = vizCalls + 1
    /\ UNCHANGED notViz

VizAnimate ==
    /\ vizCalls < MaxVizCalls
    /\ \E cqtData \in CqtFrames :
          /\ viz' = Visualizer_animate(viz, cqtData, FrameElapsed)
          /\ VizRan([name |-> "animate", cqtData |-> cqtData])

VizFileUpload ==
    /\ vizCalls < MaxVizCalls
    /\ \E decoded \in DecodeResults :
          /\ viz' = Visualizer_handleFileUpload(viz, decoded)
          /\ VizRan([name |-> "handleFileUpload", decoded |-> decoded])

VizPlayPause ==
    /\ vizCalls < MaxVizCalls
    /\ viz' = Visualizer_handlePlayPause(viz)
    /\ VizRan([name |-> "handlePlayPause"])

VizStop ==
    /\ vizCalls < MaxVizCalls
    /\ viz' = Visualizer_handleStop(viz)
    /\ VizRan([name |-> "handleStop"])

VizSeek ==
    /\ vizCalls < MaxVizCalls
    /\ \E time \in SeekTimes :
          /\ viz' = Visualizer_handleSeek(viz, time)
          /\ VizRan([name |-> "handleSeek", time |-> time])

(***************************************************************************)
(* One FeatureExtractor with a history of ten entries, driven by           *)
(* extractFeatures and reset                                               *)
(***************************************************************************)
\* a sample rate for which maxHistoryLength = floor(sampleRate * 0.1) is 10
ShortHistoryRate == 100
\* the one band is silent or at 0 dB
FxMagnitudes == {NegInfinity, RInt(0)}

FxInit ==
    /\ fx = FeatureExtractor_new(1, ShortHistoryRate)
    /\ fxSeen = << >>
    /\ fxRet = NoValue
    /\ fxCalls = 0

FxIdle ==
    /\ fx = << >>
    /\ fxSeen = << >>
    /\ fxRet = NoValue
    /\ fxCalls = 0

\* featureExtractor.extractFeatures([m], undefined, time)
FxExtractFeatures ==
    /\ fxCalls < MaxFxCalls
    /\ \E m \in FxMagnitudes :
          LET time == Rat(fxCalls, 60)
              r == FeatureExtractor_extractFeatures(fx, <<m>>, NoPhases, time)
          IN  /\ fx' = r.fe
              /\ fxRet' = r.global
              /\ fxSeen' = Append(fxSeen, [flux |-> DbToLinear(m), time |-> time])
    /\ fxCalls' = fxCalls + 1
    /\ UNCHANGED notFx

\* featureExtractor.reset()
FxReset ==
    /\ fxCalls < MaxFxCalls
    /\ fxSeen # << >>
    /\ fx' = FeatureExtractor_reset(fx)
    /\ fxSeen' = << >>
    /\ fxRet' = NoValue
    /\ fxCalls' = fxCalls + 1
    /\ UNCHANGED notFx

(***************************************************************************)
(* One AudioProcessor driven by its calls, the clock and the ended events  *)
(* of its sources.  Sources are numbered as play() creates them; current   *)
(* is the one this.source holds (0 for null) and pending holds the sources *)
(* stop() was called on whose ended event has not been dispatched yet.  A  *)
(* source that plays to the end of the buffer ends by itself.              *)
(***************************************************************************)
NoHold == [kind |-> "none"]
PbDurations == {RInt(2)}
PbSeekTimes == {RInt(1), RInt(3)}

PbInit ==
    /\ pb = [a |-> AudioProcessor_new, current |-> 0, pending |-> {}, made |-> 0,
             clock |-> RZero]
    /\ pbHold = NoHold
    /\ pbLast = [op |-> "none"]
    /\ pbCalls = 0

PbIdle ==
    /\ pb = << >>
    /\ pbHold = NoHold
    /\ pbLast = [op |-> "none"]
    /\ pbCalls = 0

\* the processor after a call that left the fields a2: stops tells whether
\* the call ran source.stop() on the current source, creates whether it
\* ran createBufferSource()
PbAfter(a2, stops, creates) ==
    [a |-> a2,
     current |-> IF creates THEN pb.made + 1 ELSE IF stops THEN 0 ELSE pb.current,
     pending |-> IF stops THEN pb.pending \cup {pb.current} ELSE pb.pending,
     made |-> IF creates THEN pb.made + 1 ELSE pb.made,
     clock |-> pb.clock]

PbRan(op) ==
    /\ pbLast' = [op |-> op, stale |-> FALSE, before |-> pb]
    /\ pbCalls' = pbCalls + 1
    /\ UNCHANGED notPb

\* pause() stops the source when one is playing
PbStops == pb.a.source /\ pb.a.isPlaying

\* what playback is left at once a source was started at an offset
Playing(from) == [kind |-> "playing", from |-> from, at |-> pb.clock,
                  source |-> pb.made + 1]

PbLoadAudioFile ==
    /\ pbCalls < MaxPbCalls
    /\ \E duration \in PbDurations :
          LET r == AudioProcessor_loadAudioFile(pb.a, Buffer(duration), pb.clock)
          IN  pb' = PbAfter(r.audio, PbStops, FALSE)
    /\ pbHold' = NoHold
    /\ PbRan("loadAudioFile")

\* play(): with a source set that was never started, source.stop() raises
\* InvalidStateError and play() is left before it changed anything
PbPlay ==
    /\ pbCalls < MaxPbCalls
    /\ LET creates == pb.a.audioBuffer.given /\ ~pb.a.isPlaying
           throws == creates /\ pb.a.source
           a2 == AudioProcessor_play(pb.a, pb.clock)
       IN  IF throws
           THEN UNCHANGED <<pb, pbHold>>
           ELSE /\ pb' = PbAfter(a2, FALSE, creates)
                /\ pbHold' = IF creates
                             THEN IF a2.isPlaying THEN Playing(pb.a.playbackOffset)
                                  ELSE NoHold
                             ELSE pbHold
    /\ PbRan("play")

PbPause ==
    /\ pbCalls < MaxPbCalls
    /\ pb' = PbAfter(AudioProcessor_pause(pb.a, pb.clock), PbStops, FALSE)
    /\ pbHold' = IF PbStops
                 THEN [kind |-> "paused",
                       offset |-> AudioProcessor_getCurrentTime(pb.a, pb.clock)]
                 ELSE pbHold
    /\ PbRan("pause")

PbStop ==
    /\ pbCalls < MaxPbCalls
    /\ pb' = PbAfter(AudioProcessor_stop(pb.a, pb.clock), PbStops, FALSE)
    /\ pbHold' = NoHold
    /\ PbRan("stop")

PbSeek ==
    /\ pbCalls < MaxPbCalls
    /\ pb.a.audioBuffer.given
    /\ \E time \in PbSeekTimes :
          LET a2 == AudioProcessor_seek(pb.a, time, pb.clock)
              target == NMax(RZero, NMin(time, pb.a.audioBuffer.duration))
          IN  /\ pb' = PbAfter(a2, PbStops, pb.a.isPlaying)
              /\ pbHold' = IF pb.a.isPlaying /\ RLess(target, pb.a.audioBuffer.duration)
                           THEN Playing(target)
                           ELSE NoHold
    /\ PbRan("seek")

\* a second passes
PbTick ==
    /\ pbCalls < MaxPbCalls
    /\ pb' = [pb EXCEPT !.clock = RAdd(@, RInt(1))]
    /\ UNCHANGED pbHold
    /\ PbRan("tick")

\* the ended event of a source is dispatched and the handler attached to
\* it runs: of a source stop() was called on, or of the current source
\* once it played to the end of the buffer
PbEnded ==
    /\ pbCalls < MaxPbCalls
    /\ \E id \in 1..pb.made :
          LET played == /\ id = pb.current
                        /\ pb.a.isPlaying
                        /\ RLeq(RAdd(pb.a.startTime, pb.a.audioBuffer.duration), pb.clock)
          IN  /\ id \in pb.pending \/ played
              /\ pb' = [pb EXCEPT !.a = AudioProcessor_onended(@),
                                   !.current = 0,
                                   !.pending = @ \ {id}]
              /\ pbHold' = IF played THEN NoHold ELSE pbHold
              /\ pbLast' = [op |-> "onended", stale |-> id # pb.current, before |-> pb]
    /\ pbCalls' = pbCalls + 1
    /\ UNCHANGED notPb

(***************************************************************************)
(* Specifications                                                          *)
(***************************************************************************)
SpecRngInit == RngInit /\ SdeIdle /\ AttIdle /\ TbIdle /\ LsIdle /\ FnIdle /\ VizIdle /\ FxIdle /\ PbIdle

SpecRngNext ==
    \/ \E o \in Inst : RngSoloNext(o)
    \/ RngSetSeed
    \/ RngNext
    \/ RngNextRange
    \/ RngNextGaussian
    \/ RngNextGaussian3D

SpecRng == SpecRngInit /\ [][SpecRngNext]_vars

SpecSdeInit == SdeInit /\ RngIdle /\ AttIdle /\ TbIdle /\ LsIdle /\ FnIdle /\ VizIdle /\ FxIdle /\ PbIdle

SpecSdeNext ==
    \/ \E o \in Inst : SdeStepUnseeded(o)
    \/ \E o \in Inst : SdeSetSeed(o)
    \/ SdeStepSeeded

SpecSde == SpecSdeInit /\ [][SpecSdeNext]_vars

SpecLorenzInit == AttInit /\ RngIdle /\ SdeIdle /\ TbIdle /\ LsIdle /\ FnIdle /\ VizIdle /\ FxIdle /\ PbIdle

SpecLorenzNext ==
    \/ AttStep
    \/ AttGetDrift
    \/ AttSetParams

SpecLorenz == SpecLorenzInit /\ [][SpecLorenzNext]_vars

SpecTrailInit == TbInit /\ RngIdle /\ SdeIdle /\ AttIdle /\ LsIdle /\ FnIdle /\ VizIdle /\ FxIdle /\ PbIdle

SpecTrailNext ==
    \/ TbAddPoint
    \/ TbGetTrail
    \/ TbResetInstance
    \/ TbReset

SpecTrail == SpecTrailInit /\ [][SpecTrailNext]_vars

SpecCallsInit == FnInit /\ RngIdle /\ SdeIdle /\ AttIdle /\ TbIdle /\ LsIdle /\ VizIdle /\ FxIdle /\ PbIdle

SpecCallsNext ==
    \/ FnComputeForce
    \/ FnComputeDrift
    \/ FnExtractFeatures
    \/ FnMapBandFeatures
    \/ FnNewBandManager
    \/ FnResetBandManager
    \/ FnEvaluate
    \/ FnEvaluateAround
    \/ FnGetCQTData

SpecCalls == SpecCallsInit /\ [][SpecCallsNext]_vars

SpecLineInit == LsInit /\ RngIdle /\ SdeIdle /\ AttIdle /\ TbIdle /\ FnIdle /\ VizIdle /\ FxIdle /\ PbIdle

SpecLineNext ==
    \/ LsUpdateBandParameters
    \/ LsUpdate
    \/ LsBandReset

SpecLine == SpecLineInit /\ [][SpecLineNext]_vars

SpecBandsInit == LsInit /\ RngIdle /\ SdeIdle /\ AttIdle /\ TbIdle /\ FnIdle /\ VizIdle /\ FxIdle /\ PbIdle

SpecBandsNext ==
    \/ LsUpdateApart
    \/ LsParametersApart

SpecBands == SpecBandsInit /\ [][SpecBandsNext]_vars

SpecReplayInit == LsInit /\ RngIdle /\ SdeIdle /\ AttIdle /\ TbIdle /\ FnIdle /\ VizIdle /\ FxIdle /\ PbIdle

SpecReplayNext ==
    \/ LsPlayParameters
    \/ LsPlayUpdate
    \/ LsStop

SpecReplay == SpecReplayInit /\ [][SpecReplayNext]_vars

SpecVisualizerInit == VizInit /\ RngIdle /\ SdeIdle /\ AttIdle /\ TbIdle /\ LsIdle /\ FnIdle /\ FxIdle /\ PbIdle

SpecVisualizerNext ==
    \/ VizAnimate
    \/ VizFileUpload
    \/ VizPlayPause
    \/ VizStop
    \/ VizSeek

SpecVisualizer == SpecVisualizerInit /\ [][SpecVisualizerNext]_vars

SpecPlaybackInit == PbInit /\ RngIdle /\ SdeIdle /\ AttIdle /\ TbIdle /\ LsIdle /\ FnIdle /\ VizIdle /\ FxIdle

SpecPlaybackNext ==
    \/ PbLoadAudioFile
    \/ PbPlay
    \/ PbPause
    \/ PbStop
    \/ PbSeek
    \/ PbTick
    \/ PbEnded

SpecPlayback == SpecPlaybackInit /\ [][SpecPlaybackNext]_vars

SpecFeaturesInit == FxInit /\ RngIdle /\ SdeIdle /\ AttIdle /\ TbIdle /\ LsIdle /\ FnIdle /\ VizIdle /\ PbIdle

SpecFeaturesNext ==
    \/ FxExtractFeatures
    \/ FxReset

SpecFeatures == SpecFeaturesInit /\ [][SpecFeaturesNext]_vars

(***************************************************************************)
(* C1: once an instance has received n >= C points p0..p(n-1), C the       *)
(* capacity, getTrail returns exactly p(n-C)..p(n-1), oldest first,        *)
(* wherever the write cursor stands.                                       *)
(***************************************************************************)
LastWritten(i) ==
    LET n == Len(tbWritten[i])
    IN  SubSeq(tbWritten[i], n - tb.capacity + 1, n)

C1_TrailIsLastCapacityPoints ==
    (tbRet.op = "getTrail" /\ Len(tbWritten[tbRet.i]) >= tb.capacity)
        => tbRet.trail = LastWritten(tbRet.i)

\* capacity 4, six points written to one instance, then read back
C1_Witness ==
    /\ tbRet.op = "getTrail"
    /\ tb.capacity = 4
    /\ Len(tbWritten[tbRet.i]) = 6
    /\ tb.rings[tbRet.i].cursor = 2
    /\ tbRet.trail = SubSeq(tbWritten[tbRet.i], 3, 6)

(***************************************************************************)
(* C2: two generators given the same seed and then the same calls return   *)
(* the same value at every call and hold the same internal seed.           *)
(***************************************************************************)
C2_SameSeedSameStream ==
    rngSynced => (rng["A"] = rng["B"] /\ rngOut["A"] = rngOut["B"])

\* the instances had different histories, were re-seeded alike and drew again
C2_Witness ==
    /\ rngSynced
    /\ rngCalls = MaxRngCalls
    /\ rngOut["A"].kind = "gauss"
    /\ rng["A"] # U32(0, 0)

(***************************************************************************)
(* C3: two orchestrators constructed alike and given the same updates      *)
(* hold the same trails after every frame, each trail's newest entry being *)
(* the position the frame computed for it, and the Gaussian draws of point *)
(* i of band b start from the generator state                              *)
(* generateSeed(cqtData, b, tempo, floor(time * 60)) + i, which the frame's *)
(* arguments alone determine.                                              *)
(***************************************************************************)
FrameSeed(frame, b, i) ==
    WordPlus(RNG_generateSeed(frame.cqtData, b, frame.tempo,
                              Floor(RMul(frame.time, RInt(60)))), i)

C3_SameInputsSameTrails ==
    /\ ls["A"] = ls["B"]
    /\ lsFrame.given =>
          \A o \in Inst :
             LET l == ls[o]
                 bands == BandManager_getBands(l.bandManager)
             IN  /\ Len(l.draws) = BandManager_getTotalInstances(l.bandManager)
                 /\ \A n \in DOMAIN bands :
                       \A i \in 0..(bands[n].instancesPerBand - 1) :
                          LET idx == (n - 1) * bands[n].instancesPerBand + i
                              trail == TrailBuffer_getTrail(l.trailBuffer, idx)
                          IN  /\ l.draws[idx + 1] = FrameSeed(lsFrame, bands[n].bandIndex, i)
                              /\ trail # << >>
                              /\ trail[Len(trail)] = l.allPositions[idx + 1]

\* two frames with different arguments have been simulated, the second with
\* diffusion, and some trail holds both frames' positions
C3_Witness ==
    /\ Len(lsFrames) >= 2
    /\ lsFrames[Len(lsFrames)] # lsFrames[Len(lsFrames) - 1]
    /\ \E idx \in DOMAIN ls["A"].trailBuffer.rings :
          LET trail == TrailBuffer_getTrail(ls["B"].trailBuffer, idx)
          IN  /\ Len(trail) >= 2
              /\ trail[Len(trail)][1].kind = "sum"
              /\ trail[Len(trail)] # trail[Len(trail) - 1]

(***************************************************************************)
(* C4: step() with an explicit seed returns a position that is a function  *)
(* of its arguments only: two integrators with different constructor seeds *)
(* and different call histories return the same position.                  *)
(***************************************************************************)
C4_SeededStepIgnoresHistory ==
    sdeJoint => (sdeRet["A"] = sdeRet["B"] /\ sde["A"] = sde["B"])

\* the integrators were in different generator states before the joint step,
\* and the step drew noise that contributes
C4_Witness ==
    /\ sdeJoint
    /\ sdeCalls = MaxSdeCalls
    /\ sdeRet["A"][1].kind = "sum"

(***************************************************************************)
(* C5: step() returns exactly position + drift * dt on every axis when     *)
(* dt = 0 or volatility = 0, for every seed and every generator state.     *)
(***************************************************************************)
DriftOnly(c) ==
    [k \in 1..3 |-> [kind |-> "num", v |-> NAdd(c.position[k], NMul(c.drift[k], c.dt))]]

C5_NoDiffusionAtZero ==
    \A o \in Inst :
        (sdeCall[o].op = "step" /\ (sdeCall[o].dt = RZero \/ sdeCall[o].volatility = RZero))
            => sdeRet[o] = DriftOnly(sdeCall[o])

(***************************************************************************)
(* C6: next() returns a value v with 0 <= v < 1.                           *)
(***************************************************************************)
C6_NextInUnitInterval ==
    \A o \in Inst :
        rngOut[o].kind = "uniform"
            => (UniformNonNegative(rngOut[o]) /\ UniformBelowOne(rngOut[o]))

(***************************************************************************)
(* C7: step() replaces (x, y, z) by                                        *)
(*   (x + sigma*(y-x)*dt, y + (x*(rho-z)-y)*dt, z + (x*y-beta*z)*dt),      *)
(* every increment computed from the state before the step, stores the     *)
(* result as the new state and returns it.                                 *)
(***************************************************************************)
Euler(st, pr, dt) ==
    [x |-> NAdd(st.x, NMul(NMul(pr.sigma, NSub(st.y, st.x)), dt)),
     y |-> NAdd(st.y, NMul(NSub(NMul(st.x, NSub(pr.rho, st.z)), st.y), dt)),
     z |-> NAdd(st.z, NMul(NSub(NMul(st.x, st.y), NMul(pr.beta, st.z)), dt))]

C7_StepIsForwardEuler ==
    attOp.op = "step" =>
        /\ att.state = Euler(attPrev.state, att.params, att.dt)
        /\ attRet = [kind |-> "state", v |-> att.state]

\* a second step, from a state whose x has just moved
C7_Witness ==
    /\ attOp.op = "step"
    /\ attOps >= 2
    /\ att.state.x # attPrev.state.x
    /\ att.state.y # attPrev.state.y
    /\ att.state.z # attPrev.state.z

(***************************************************************************)
(* C8: from (1,1,1) with sigma=10, rho=28, beta=8/3, dt=0.01 one step()    *)
(* leaves x exactly 1 and yields a state approximately (1, 1.27, 1.01).    *)
(***************************************************************************)
ApproxTolerance == Rat(1, 200)
Approx(r, target) ==
    /\ RLeq(RSub(r, target), ApproxTolerance)
    /\ RLeq(RSub(target, r), ApproxTolerance)

FirstDefaultStep ==
    /\ attOp.op = "step"
    /\ attPrev.state = LorenzDefaultState
    /\ att.params = LorenzDefaultParams
    /\ att.dt = LorenzDefaultDt

C8_FirstStepAsStated ==
    FirstDefaultStep =>
        /\ att.state.x = RInt(1)
        /\ Approx(att.state.y, Rat(127, 100))
        /\ Approx(att.state.z, Rat(101, 100))

\* amended: the state after the step is approximately (1, 1.26, 0.983)
C8_FirstStep ==
    FirstDefaultStep =>
        /\ att.state.x = RInt(1)
        /\ Approx(att.state.y, Rat(126, 100))
        /\ Approx(att.state.z, Rat(983, 1000))

C8_Witness == FirstDefaultStep /\ attOps = 1

(***************************************************************************)
(* C9: getDrift() never changes (x, y, z) and returns the rate vector      *)
(* (sigma*(y-x), x*(rho-z)-y, x*y-beta*z) that a following step() with     *)
(* the same coefficients multiplies by dt.                                 *)
(***************************************************************************)
Rates(st, pr) ==
    <<NMul(pr.sigma, NSub(st.y, st.x)),
      NSub(NMul(st.x, NSub(pr.rho, st.z)), st.y),
      NSub(NMul(st.x, st.y), NMul(pr.beta, st.z))>>

C9_GetDriftIsPure ==
    attOp.op = "getDrift" =>
        /\ att.state = attPrev.state
        /\ attRet = [kind |-> "drift", v |-> Rates(att.state, att.params)]
        /\ LET next == Lorenz_step(att, NoParams).att.state
                  d == attRet.v
              IN  /\ next.x = NAdd(att.state.x, NMul(d[1], att.dt))
                  /\ next.y = NAdd(att.state.y, NMul(d[2], att.dt))
                  /\ next.z = NAdd(att.state.z, NMul(d[3], att.dt))

\* getDrift after the state has been stepped away from its initial value
C9_Witness ==
    /\ attOp.op = "getDrift"
    /\ attOps >= 3
    /\ attRet.v[1] # RZero
    /\ att.state.x # RInt(1)
    /\ att.state.x # RInt(-1)
    /\ att.state.x # RInt(0)

(***************************************************************************)
(* C10: coefficients passed to step(), getDrift() or setParams() replace   *)
(* the stored ones, only the fields supplied, and every later step() or    *)
(* getDrift() that does not override them uses them.                       *)
(***************************************************************************)
Supplied(arg) == IF arg.given THEN DOMAIN arg.p ELSE {}

C10_OverridesPersist ==
    attOp.op \in {"step", "getDrift", "setParams"} =>
        /\ \A k \in ParamNames :
              att.params[k] = IF k \in Supplied(attOp.arg)
                              THEN attOp.arg.p[k]
                              ELSE attPrev.params[k]
        /\ (attOp.op = "step" /\ Supplied(attOp.arg) = {})
              => att.state = Euler(attPrev.state, attPrev.params, att.dt)
        /\ (attOp.op = "getDrift" /\ Supplied(attOp.arg) = {})
              => attRet.v = Rates(attPrev.state, attPrev.params)

\* a step without arguments after an earlier call changed only some fields
C10_Witness ==
    /\ attOp.op = "step"
    /\ ~attOp.arg.given
    /\ att.params.sigma = RInt(4)
    /\ att.params.rho = RInt(2)
    /\ att.state # attPrev.state


(***************************************************************************)
(* C11: computeForce returns the sum over the other positions of a vector  *)
(* along position - other, pointing from the other position to the         *)
(* queried one, of magnitude 2k / (r^2 + eps); for position (0,0,0) and    *)
(* one other at (1,0,0) the magnitude is about 0.198 and the force points  *)
(* toward -x.                                                              *)
(***************************************************************************)
\* the square and the sign of a force component
SquareOf(v) == IF IsRat(v) THEN RMul(v, v) ELSE RDiv(RMul(v.num, v.num), v.radicand)
SignOf(v) ==
    LET n == IF IsRat(v) THEN v.n ELSE v.num.n
    IN  IF n > 0 THEN 1 ELSE IF n < 0 THEN -1 ELSE 0

Separation(position, other) == [a \in 1..3 |-> RSub(position[a], other[a])]
SquaredLength(d) == RAdd(RAdd(RMul(d[1], d[1]), RMul(d[2], d[2])), RMul(d[3], d[3]))
StatedMagnitude(rSquared) ==
    RDiv(RMul(RInt(2), CollisionStrength), RAdd(rSquared, CollisionEpsilon))

\* the three contributions of one other position, as computeForce adds them
Contribution(position, other) ==
    [a \in 1..3 |-> CollisionAvoidance_pairForce(position, other, a)]

C11_ForceAsStated ==
    fnCall.fn = "computeForce" =>
        \A j \in DOMAIN fnCall.otherPositions :
           LET d == Separation(fnCall.position, fnCall.otherPositions[j])
               rSquared == SquaredLength(d)
               f == Contribution(fnCall.position, fnCall.otherPositions[j])
           IN  /\ \A a \in 1..3 : SignOf(f[a]) = SignOf(d[a])
               /\ \A a, b \in 1..3 :
                     RMul(SquareOf(f[a]), RMul(d[b], d[b]))
                         = RMul(SquareOf(f[b]), RMul(d[a], d[a]))
               /\ rSquared # RZero =>
                     RAdd(RAdd(SquareOf(f[1]), SquareOf(f[2])), SquareOf(f[3]))
                         = RMul(StatedMagnitude(rSquared), StatedMagnitude(rSquared))

(***************************************************************************)
(* C12: computeDrift returns                                               *)
(*   w.attractor * driftSpeed * attractor.getDrift(lorenz parameters)      *)
(*     + w.flowField * flowIntensity * flowField.evaluate(position)        *)
(* with no stochastic term: the result does not depend on the sde weight   *)
(* or on the integrator passed, and the integrator's generator is neither  *)
(* drawn from nor re-seeded.                                               *)
(***************************************************************************)
\* the weight the call uses for engine k: the one given, else the default
WeightUsed(weights, k) ==
    IF k \in DOMAIN weights THEN weights[k] ELSE EngineMixer_defaultWeights[k]

\* the same weights with another sde weight
WithSde(weights, s) ==
    [k \in (DOMAIN weights) \cup {"sde"} |-> IF k = "sde" THEN s ELSE weights[k]]

\* what getDrift and evaluate return for the arguments of the call
AttractorDriftOf(c) ==
    Lorenz_getDrift(c.attractor,
        Params([sigma |-> c.parameters.lorenzSigma, rho |-> c.parameters.lorenzRho,
                beta |-> c.parameters.lorenzBeta])).ret
FlowVelocityOf(c) ==
    FlowField_evaluate(c.flowField, c.position[1], c.position[2], c.position[3])

StatedDrift(c) ==
    [k \in 1..3 |->
        NAdd(NMul(NMul(WeightUsed(c.weights, "attractor"), c.parameters.driftSpeed),
                  AttractorDriftOf(c)[k]),
             NMul(NMul(FlowVelocityOf(c)[k], c.parameters.flowIntensity),
                  WeightUsed(c.weights, "flowField")))]

C12_DriftIsDeterministicMix ==
    fnCall.fn = "computeDrift" =>
        /\ fnRet.drift = StatedDrift(fnCall)
        /\ fnRet.sdeIntegrator = fnCall.sdeIntegrator
        /\ \A s \in SdeWeights, sdeIntegrator \in DriftIntegrators :
              EngineMixer_computeDrift(fnCall.position, fnCall.attractor,
                  fnCall.flowField, sdeIntegrator, fnCall.parameters,
                  WithSde(fnCall.weights, s)).drift = fnRet.drift

\* a call with a nonzero sde weight, a seeded integrator and a nonzero drift
C12_Witness ==
    /\ fnCall.fn = "computeDrift"
    /\ WeightUsed(fnCall.weights, "sde") = Rat(3, 10)
    /\ fnCall.sdeIntegrator = U32(0, 42)
    /\ fnCall.parameters = BusyParameters
    /\ IsRat(AttractorDriftOf(fnCall)[1])
    /\ AttractorDriftOf(fnCall)[1] # RZero

(***************************************************************************)
(* C13: within one frame the collision force of each point is computed     *)
(* against the already-updated positions of the points processed before it *)
(* and the not-yet-updated positions of the points processed after it, so  *)
(* every other point contributes exactly once.                             *)
(***************************************************************************)
\* the position of point j that the force of point k is stated to use: the
\* one this update() pushed for an earlier point, the one the previous
\* update() left for a later point
StatedOther(l, k, j) ==
    IF j < k THEN PositionRef(l.updates, j) ELSE PositionRef(l.updates - 1, j)

C13_EveryOtherPointOnce ==
    lsFrame.given =>
        \A o \in Inst :
           LET l == ls[o]
               total == BandManager_getTotalInstances(l.bandManager)
           IN  \A k \in 1..total :
                  /\ Len(l.against[k]) = total - 1
                  /\ \A j \in (1..total) \ {k} :
                        Cardinality({m \in DOMAIN l.against[k] :
                                        l.against[k][m] = StatedOther(l, k, j)}) = 1

(***************************************************************************)
(* C14: after n calls of update() every band's attractor has been stepped  *)
(* exactly n times, once per frame whatever the number of points of the    *)
(* band, and every point's trail has received exactly n positions, point i *)
(* of band b writing to instance index b * P + i.                          *)
(***************************************************************************)
C14_OneStepAndOnePointPerFrame ==
    \A o \in Inst :
       LET l == ls[o]
           bands == BandManager_getBands(l.bandManager)
           P == l.bandManager.instancesPerBand
       IN  /\ \A b \in DOMAIN l.steps : l.steps[b] = l.updates
           /\ \A idx \in DOMAIN l.trailBuffer.rings :
                 Len(TrailBuffer_getTrail(l.trailBuffer, idx)) = l.updates
           /\ lsFrame.given =>
                 /\ Len(l.wrote) = BandManager_getTotalInstances(l.bandManager)
                 /\ \A n \in DOMAIN bands :
                       \A i \in 0..(bands[n].instancesPerBand - 1) :
                          l.wrote[bands[n].bandIndex * P + i + 1]
                              = <<bands[n].bandIndex, i, bands[n].bandIndex * P + i>>

\* two frames were simulated by an orchestrator whose bands have several
\* points, with another call on the band manager before or between them
C14_Witness ==
    /\ ls["A"].updates >= 2
    /\ ls["A"].bandManager.instancesPerBand >= 2
    /\ Len(ls["A"].wrote) >= 4
    /\ lsCalls > ls["A"].updates

(***************************************************************************)
(* C15: a frame whose magnitude array has a length different from the      *)
(* number of bands is simulated for every band as if the array were the    *)
(* all-zero array of that length: no band is skipped, no element outside   *)
(* the array is read, and every point's draws start from the seed the zero *)
(* array gives.                                                            *)
(***************************************************************************)
ZeroMagnitudes(numBands) == [b \in 1..numBands |-> 0]

C15_WrongLengthUsesZeroArray ==
    (lsFrame.given /\ Len(lsFrame.cqtData) # NumBands) =>
        \A o \in Inst :
           LET l == ls[o]
               bands == BandManager_getBands(l.bandManager)
               zeroFrame == [lsFrame EXCEPT !.cqtData = ZeroMagnitudes(NumBands)]
           IN  /\ Len(l.wrote) = BandManager_getTotalInstances(l.bandManager)
               /\ \A n \in DOMAIN bands :
                     \A i \in 0..(bands[n].instancesPerBand - 1) :
                        l.draws[(n - 1) * bands[n].instancesPerBand + i + 1]
                            = FrameSeed(zeroFrame, bands[n].bandIndex, i)

(***************************************************************************)
(* C19: every pitch-class distribution returned by extractFeatures has     *)
(* twelve entries that are not negative; they sum to 1 when the band's     *)
(* linear energy is not zero and to 0 when it is zero.                     *)
(***************************************************************************)
\* the sum of the twelve entries is numerator / over when they share over
ChromaNumerator(chroma) ==
    [d \in ChromaDistances |->
        LET S[i \in 0..12] ==
                IF i = 0 THEN RZero
                ELSE IF chroma[i - 1].dist = d THEN RAdd(S[i - 1], chroma[i - 1].coef)
                ELSE S[i - 1]
        IN  S[12]]
ChromaZero == [d \in ChromaDistances |-> RZero]

C19_ChromaIsDistribution ==
    fnCall.fn = "extractFeatures" =>
        \A b \in DOMAIN fnRet.bands :
           LET chroma == fnRet.bands[b].chroma
               energy == fnRet.bands[b].energy
           IN  /\ DOMAIN chroma = 0..11
               /\ \A i \in 0..11 :
                     /\ chroma[i].coef.n >= 0
                     /\ chroma[i].over = chroma[0].over
                     /\ \A d \in ChromaDistances : chroma[i].over[d].n >= 0
               /\ ChromaPositive(chroma[0].over)
               /\ energy # RZero => ChromaNumerator(chroma) = chroma[0].over
               /\ energy = RZero => ChromaNumerator(chroma) = ChromaZero

\* one call returned a band with energy and a band without
C19_Witness ==
    /\ fnCall.fn = "extractFeatures"
    /\ \E b, c \in DOMAIN fnRet.bands :
          /\ fnRet.bands[b].energy = Rat(1, 10)
          /\ fnRet.bands[b].chroma[0].over # ChromaUnit
          /\ fnRet.bands[c].energy = RZero

(***************************************************************************)
(* C20: the entropy returned by extractFeatures is 0 when one band holds   *)
(* all of the energy and when the total energy is 0, and is log2(N) when   *)
(* the N bands hold equal nonzero energy.                                  *)
(***************************************************************************)
BandEnergies == [b \in DOMAIN fnRet.bands |-> fnRet.bands[b].energy]
BandsWithEnergy == {b \in DOMAIN fnRet.bands : fnRet.bands[b].energy # RZero}

C20_EntropyExtremes ==
    fnCall.fn = "extractFeatures" =>
        LET N == Len(fnRet.bands)
        IN  /\ Cardinality(BandsWithEnergy) <= 1 => fnRet.global.entropy = RZero
            /\ (N >= 1 /\ Cardinality(BandsWithEnergy) = N
                    /\ \A b \in 1..N : BandEnergies[b] = BandEnergies[1])
                  => fnRet.global.entropy = LogValue(Log2(RInt(N)))

\* equal nonzero energy in every one of at least two bands
C20_Witness ==
    /\ fnCall.fn = "extractFeatures"
    /\ Len(fnRet.bands) = NumBands
    /\ \A b \in DOMAIN fnRet.bands : fnRet.bands[b].energy = Rat(1, 100)
    /\ fnRet.global.entropy # RZero

(***************************************************************************)
(* C16: after a track load, a stop or a seek, reset() has been called on   *)
(* the feature extractor, the parameter mapper and the band manager before *)
(* the next frame is simulated.                                            *)
(***************************************************************************)
C16_ResetBeforeNextFrame ==
    vizOp.name = "animate" => viz.missed = {}

(***************************************************************************)
(* C17: a second reset() right after a first one leaves the feature        *)
(* extractor, the parameter mapper and the band manager as the first one   *)
(* left them, whatever ran before.                                         *)
(***************************************************************************)
C17_ResetIsIdempotent ==
    (vizOp.name = "handleStop" /\ vizPrevOp.name = "handleStop") =>
        \A c \in CoreComponents : viz[c] = vizPrev[c]

\* two stops in a row after a frame was simulated
C17_Witness ==
    /\ vizOp.name = "handleStop"
    /\ vizPrevOp.name = "handleStop"
    /\ viz.clock # RZero

(***************************************************************************)
(* C18: after reset() the feature extractor (previous energies and phases, *)
(* the three EMA arrays, the three histories) and the band manager (Sobol  *)
(* sequence, initial positions, attractors, default parameters) are as     *)
(* they were right after construction, whatever frames ran before.         *)
(***************************************************************************)
ResetsExtractorAndBands(op) ==
    \/ op.name = "handleStop"
    \/ op.name = "handleFileUpload" /\ op.decoded.given

C18_ResetRestoresConstruction ==
    ResetsExtractorAndBands(vizOp) =>
        /\ viz.featureExtractor = FeatureExtractor_new(NumBands, SAMPLE_RATE)
        /\ viz.bandManager = BandManager_new(NumBands, InstancesPerBand)

\* a reset of an extractor that had smoothed and recorded a frame and of
\* bands whose parameters and attractors a frame had set
C18_Witness ==
    /\ ResetsExtractorAndBands(vizOp)
    /\ vizPrev.featureExtractor.envelopeEMA[1] # RZero
    /\ vizPrev.featureExtractor.previousEnergies[1] # RZero
    /\ Len(vizPrev.featureExtractor.fluxHistory) >= 1
    /\ vizPrev.bandManager # BandManager_new(NumBands, InstancesPerBand)

(***************************************************************************)
(* C21: after any sequence of extractFeatures and reset calls the flux,    *)
(* energy and time histories have equal length, at most maxHistoryLength;  *)
(* they hold the newest entries pushed since the last reset, so the oldest *)
(* entry is the one dropped; the beat strength returned is within [0, 1]   *)
(* and is 0 while the history holds fewer than 10 entries.                 *)
(***************************************************************************)
NewestSeen ==
    LET n == Len(fxSeen)
        k == IF n < fx.maxHistoryLength THEN n ELSE fx.maxHistoryLength
    IN  SubSeq(fxSeen, n - k + 1, n)

C21_HistoriesBoundedBeatInUnit ==
    /\ Len(fx.fluxHistory) = Len(fx.energyHistory)
    /\ Len(fx.fluxHistory) = Len(fx.timeHistory)
    /\ Len(fx.fluxHistory) <= fx.maxHistoryLength
    /\ fx.fluxHistory = [i \in 1..Len(NewestSeen) |-> NewestSeen[i].flux]
    /\ fx.timeHistory = [i \in 1..Len(NewestSeen) |-> NewestSeen[i].time]
    /\ fxRet # NoValue =>
          /\ IsRat(fxRet.beatStrength)
          /\ RLeq(RZero, fxRet.beatStrength)
          /\ RLeq(fxRet.beatStrength, RInt(1))
          /\ Len(fx.fluxHistory) < 10 => fxRet.beatStrength = RZero

\* twelve frames without a reset: the two oldest entries were dropped and
\* the beat strength lies strictly between 0 and 1
C21_Witness ==
    /\ Len(fxSeen) = 12
    /\ Len(fx.fluxHistory) = fx.maxHistoryLength
    /\ fxRet # NoValue
    /\ RLess(RZero, fxRet.beatStrength)
    /\ RLess(fxRet.beatStrength, RInt(1))

(***************************************************************************)
(* C22: every parameter mapBandFeatures returns for band b is the raw      *)
(* formula value smoothed with the fixed coefficient against the value     *)
(* returned for band b by the previous call; the first call for a band     *)
(* returns the raw values; the call reads and writes only band b's memory. *)
(* Two numbers are compared where both are exact.                          *)
(***************************************************************************)
Agree(a, b) == a = b \/ ~(IsRat(a) /\ IsRat(b))

\* the formulas of the parameters before smoothing
StatedRaw(bandIndex, bandFeatures, globalFeatures, hasOnset) ==
    [thickness |-> NAdd(Rat(1, 10), NMul(Rat(1, 2), NLog1p(bandFeatures.envelope))),
     alpha |-> Conditional(hasOnset, RInt(1),
                   NMax(Rat(3, 10), NMul(bandFeatures.envelope, Rat(7, 10)))),
     colorHue |-> Rat(ParameterMapper_getDominantChroma(bandFeatures.chroma), 12),
     colorChroma |-> NMin(RInt(1), NMul(bandFeatures.flux, RInt(2))),
     colorLuminance |-> NSub(RInt(1), NMin(RInt(1), NMul(globalFeatures.loudness, Rat(1, 2)))),
     diffusion |-> NAdd(Rat(1, 100), NMul(Rat(1, 20), bandFeatures.envelope)),
     flowFrequency |-> NAdd(RInt(1), NMul(Rat(1, 2), NMul(bandFeatures.centroid, Rat(1, 36)))),
     flowIntensity |-> bandFeatures.envelope,
     lorenzSigma |-> NAdd(RInt(10), NMul(RInt(2), NMul(bandFeatures.centroid, Rat(1, 36)))),
     lorenzRho |-> NAdd(RInt(28), NMul(RInt(10), globalFeatures.loudness)),
     lorenzBeta |-> NAdd(Rat(8, 3), bandFeatures.flux),
     driftSpeed |-> RAdd(Rat(1, 2), RMul(Rat(bandIndex, 36), Rat(1, 2))),
     turbulence |-> NMul(globalFeatures.entropy, Rat(1, 5))]

\* the mapper with the memory of band b alone
OnlyBand(pm, b) ==
    [pm EXCEPT !.previousParams = [k \in DOMAIN @ \cap {b} |-> @[k]]]

C22_EveryParameterSmoothedPerBand ==
    fnCall.fn = "mapBandFeatures" =>
        LET pm == fnCall.pm
            b == fnCall.bandIndex
            known == b \in DOMAIN pm.previousParams
            raw == StatedRaw(b, fnCall.bandFeatures, fnCall.globalFeatures, fnCall.hasOnset)
            alone == ParameterMapper_mapBandFeatures(OnlyBand(pm, b), b,
                         fnCall.bandFeatures, fnCall.globalFeatures, fnCall.hasOnset)
        IN  /\ \A field \in DOMAIN raw :
                   Agree(fnRet.ret[field],
                         IF known
                         THEN ParameterMapper_smooth(pm, pm.previousParams[b][field], raw[field])
                         ELSE raw[field])
            /\ fnRet.ret = alone.ret
            /\ DOMAIN fnRet.pm.previousParams = DOMAIN pm.previousParams \cup {b}
            /\ fnRet.pm.previousParams[b] = fnRet.ret
            /\ \A k \in DOMAIN pm.previousParams \ {b} :
                   fnRet.pm.previousParams[k] = pm.previousParams[k]

(***************************************************************************)
(* C23: the initial positions the bands of one BandManager draw from the   *)
(* Sobol sequence are pairwise distinct, for every band count the          *)
(* application can configure, at construction and after every reset.       *)
(***************************************************************************)
ManagerCall == fnCall.fn \in {"newBandManager", "resetBandManager"}

C23_InitialPositionsDistinct ==
    ManagerCall =>
        /\ Len(fnRet.bands) = fnCall.numBands
        /\ \A i, j \in DOMAIN fnRet.bands :
              i # j => /\ fnRet.bands[i].initialPosition # fnRet.bands[j].initialPosition
                       /\ fnRet.bands[i].position # fnRet.bands[j].position

\* a reset of a manager with the 86 bands initCQTFreqMap computes, reset once before
C23_Witness ==
    /\ fnCall.fn = "resetBandManager"
    /\ fnCall.used = "reset"
    /\ fnCall.numBands = 86
    /\ Len(fnRet.bands) = 86
    /\ fnRet.bands[2].initialPosition = <<RZero, RZero, RZero>>

(***************************************************************************)
(* C24: a band's attractor state and the generator state its points' draws *)
(* start from in a frame depend only on the band's own inputs: two         *)
(* orchestrators that got the same parameters and the same magnitude for   *)
(* band b, and the same tempo and time, hold the same attractor for b and  *)
(* seeded b's draws alike, whatever the other bands' magnitudes and        *)
(* parameters and the beat strength were; a band's index never changes.    *)
(***************************************************************************)
\* the draws of the points of band b in the last frame; points are numbered
\* band by band
DrawsOfBand(l, b) ==
    LET per == l.bandManager.instancesPerBand
    IN  [i \in 1..per |-> l.draws[b * per + i]]

C24_BandsAreIndependent ==
    \A b \in 0..(NumBands - 1) :
        /\ \A o \in Inst : ls[o].bandManager.bands[b + 1].bandIndex = b
        /\ lsAgree[b] =>
              /\ ls["A"].bandManager.bands[b + 1].attractor
                    = ls["B"].bandManager.bands[b + 1].attractor
              /\ lsFrame.given => DrawsOfBand(ls["A"], b) = DrawsOfBand(ls["B"], b)

\* two frames in which only the last band's magnitude and the beat strength
\* differed, after the last band got different parameters: the attractors
\* of the last band differ, the flow fields of band 0 differ, and the
\* attractors of band 0 are equal and have moved
C24_Witness ==
    /\ lsAgree[0]
    /\ ~lsAgree[NumBands - 1]
    /\ Len(lsFrames) >= 2
    /\ ls["A"].bandManager.bands[NumBands].attractor
           # ls["B"].bandManager.bands[NumBands].attractor
    /\ ls["A"].flowFields[0] # ls["B"].flowFields[0]
    /\ ls["A"].bandManager.bands[1].attractor
           # BandManager_new(NumBands, InstancesPerBand).bands[1].attractor

(***************************************************************************)
(* C25: evaluate returns the central-difference curl                       *)
(* (dN3/dy - dN2/dz, dN1/dz - dN3/dx, dN2/dx - dN1/dy) of three noise      *)
(* components, each the one noise function sampled at a single constant    *)
(* offset, distinct per component and the same in both differences taken   *)
(* of that component.                                                      *)
(***************************************************************************)
AxisUnit(a) == [k \in 1..3 |-> IF k = a THEN CURL_EPSILON ELSE RZero]

\* the central difference along axis a of the noise sampled at offset o
\* from the position of the call
StatedDifference(c, position, o, a) ==
    LET t == NAdd(c.time, c.timeWarp)
        at(sign) == [k \in 1..3 |->
                        RAdd(RAdd(position[k], o[k]), RMul(RInt(sign), AxisUnit(a)[k]))]
    IN  CentralDifference(
            CurlNoiseField_noise3D(c, at(1)[1], at(1)[2], at(1)[3], t),
            CurlNoiseField_noise3D(c, at(-1)[1], at(-1)[2], at(-1)[3], t))

\* the offset a difference was sampled at: the midpoint of its two samples
\* less the position
OffsetOf(difference, position) ==
    LET mid(p, q) == RMul(RAdd(p, q), Rat(1, 2))
    IN  <<RSub(mid(difference.of.x, difference.from.x), position[1]),
          RSub(mid(difference.of.y, difference.from.y), position[2]),
          RSub(mid(difference.of.z, difference.from.z), position[3])>>

C25_CurlOfThreeOffsetComponents ==
    fnCall.fn = "evaluate" =>
        LET c == fnCall.c
            p == fnCall.position
            o1 == OffsetOf(fnRet[2].a, p)
            o2 == OffsetOf(fnRet[1].b, p)
            o3 == OffsetOf(fnRet[1].a, p)
        IN  /\ fnRet[1] = NSub(StatedDifference(c, p, o3, 2), StatedDifference(c, p, o2, 3))
            /\ fnRet[2] = NSub(StatedDifference(c, p, o1, 3), StatedDifference(c, p, o3, 1))
            /\ fnRet[3] = NSub(StatedDifference(c, p, o2, 1), StatedDifference(c, p, o1, 2))
            /\ o1 # o2 /\ o2 # o3 /\ o1 # o3

(***************************************************************************)
(* C26: at every position and time the field evaluate returns has          *)
(* near-zero divergence, within about 1e-2, when the divergence is         *)
(* estimated by central differences with the epsilon evaluate uses.        *)
(***************************************************************************)
DIVERGENCE_TOLERANCE == Rat(1, 100)

Indicator(b) == IF b THEN 1 ELSE 0

\* how often a noise sample enters one component a - b of evaluate, a and
\* b each a central difference of two samples
CoefficientIn(component, sample) ==
    Indicator(component.a.of = sample) - Indicator(component.a.from = sample)
        - Indicator(component.b.of = sample) + Indicator(component.b.from = sample)

\* how often it enters
\* (v1(x + e) - v1(x - e)) + (v2(y + e) - v2(y - e)) + (v3(z + e) - v3(z - e))
Coefficient(around, sample) ==
    LET of(axis) == CoefficientIn(around[axis].plus[axis], sample)
                        - CoefficientIn(around[axis].minus[axis], sample)
    IN  of(1) + of(2) + of(3)

SamplesOf(around) ==
    UNION {{v.a.of, v.a.from, v.b.of, v.b.from} :
              v \in {around[axis].plus[axis] : axis \in 1..3}
                        \cup {around[axis].minus[axis] : axis \in 1..3}}

\* the samples that do not cancel
Residual(around) == {s \in SamplesOf(around) : Coefficient(around, s) # 0}

\* the least and the greatest value of the signed sum of the samples
RECURSIVE SignedSum(_, _, _)
SignedSum(around, samples, least) ==
    IF samples = {} THEN RZero
    ELSE LET s == CHOOSE s \in samples : TRUE
             c == Coefficient(around, s)
             v == CurlNoiseField_noise3DValue(s)
             bound == IF (c > 0) = least THEN v.lo ELSE v.hi
         IN  RAdd(RMul(RInt(c), bound), SignedSum(around, samples \ {s}, least))

\* the estimate: the signed sum over 2 * epsilon of evaluate and over
\* 2 * epsilon of the estimate
DivergenceEstimate(around) ==
    LET over == RMul(RInt(2), CURL_EPSILON)
        scaled(sum) == RDiv(RDiv(sum, over), over)
    IN  [lo |-> scaled(SignedSum(around, Residual(around), TRUE)),
         hi |-> scaled(SignedSum(around, Residual(around), FALSE))]

\* a comparison the enclosure decides
Decided(holds, fails) == CHOOSE b \in {holds} : b = ~fails

C26_DivergenceNearZero ==
    fnCall.fn = "evaluateAround" =>
        LET div == DivergenceEstimate(fnRet)
        IN  Decided(/\ RLeq(RNeg(DIVERGENCE_TOLERANCE), div.lo)
                    /\ RLeq(div.hi, DIVERGENCE_TOLERANCE),
                    \/ RLess(div.hi, RNeg(DIVERGENCE_TOLERANCE))
                    \/ RLess(DIVERGENCE_TOLERANCE, div.lo))

(***************************************************************************)
(* C27: on every call, with or without audio data, getCQTData returns an   *)
(* array whose length is the band count getNumBands() reports, and that    *)
(* band count lies between 24 and 36.                                      *)
(***************************************************************************)
C27_LengthIsBandCountWithin24And36 ==
    fnCall.fn = "getCQTData" =>
        /\ Len(fnRet) = AudioProcessor_getNumBands(fnCall.a)
        /\ AudioProcessor_getNumBands(fnCall.a) \in 24..36

(***************************************************************************)
(* C30: for every band the (startBin, endBin) pair getCQTData unpacks is   *)
(* the pair initCQTFreqMap computed and packed, so the band averages the   *)
(* FFT bins of its own frequency range, clipped to the FFT length, and     *)
(* reports -100 only when that range holds no FFT bin.                     *)
(***************************************************************************)
\* the bins of a pair that are bins of the FFT
ClippedBins(bins, freqData) ==
    {j \in 0..(freqData.length - 1) : bins.startBin <= j /\ j <= bins.endBin}

\* the average of freqData over a non-empty range of bins from..to
AverageOver(freqData, from, to) ==
    RDiv(SumBins(freqData, from, to), RInt(to - from + 1))

Least(S) == CHOOSE j \in S : \A k \in S : j <= k
Greatest(S) == CHOOSE j \in S : \A k \in S : k <= j

C30_BandsAverageTheirOwnBins ==
    (fnCall.fn = "getCQTData" /\ fnCall.a.cqtFreqMap.given) =>
        \A band \in 0..(fnCall.a.numBands - 1) :
            LET computed == AudioProcessor_bandBins(band, fnCall.a.sampleRate)
                unpacked == AudioProcessor_unpack(fnCall.a.cqtFreqMap.map[band + 1])
                own == ClippedBins(computed, fnCall.freqData)
            IN  /\ unpacked = computed
                /\ fnRet[band + 1] =
                       IF own = {} THEN RInt(-100)
                       ELSE AverageOver(fnCall.freqData, Least(own), Greatest(own))

(***************************************************************************)
(* C28: after pause() the stored playback offset is the position playback  *)
(* was paused at and a later play() resumes from it; after seek() during   *)
(* playback the processor is playing with a current source at the clamped  *)
(* target offset; both also when the ended callback of the stopped source  *)
(* is delivered afterwards: a callback from a source that is no longer     *)
(* current changes neither isPlaying, playbackOffset nor the source.       *)
(***************************************************************************)
\* paused: the offset is kept and nothing plays
PausedAsLeft ==
    pbHold.kind = "paused" =>
        /\ ~pb.a.isPlaying
        /\ pb.a.playbackOffset = pbHold.offset

\* resumed or sought: the source started then is current and plays from
\* the offset it was started at
PlayingAsLeft ==
    pbHold.kind = "playing" =>
        /\ pb.a.isPlaying
        /\ pb.current = pbHold.source
        /\ pb.a.startTime = RSub(pbHold.at, pbHold.from)
        /\ AudioProcessor_getCurrentTime(pb.a, pb.clock) =
               NMin(RAdd(pbHold.from, RSub(pb.clock, pbHold.at)), pb.a.audioBuffer.duration)

StaleCallbackChangesNothing ==
    (pbLast.op = "onended" /\ pbLast.stale) =>
        /\ pb.a.isPlaying = pbLast.before.a.isPlaying
        /\ pb.a.playbackOffset = pbLast.before.a.playbackOffset
        /\ pb.a.source = pbLast.before.a.source
        /\ pb.current = pbLast.before.current

C28_StaleEndedCallbackIsIgnored ==
    PausedAsLeft /\ PlayingAsLeft /\ StaleCallbackChangesNothing

(***************************************************************************)
(* C29: replaying the same per-frame inputs after a stop and reset of a    *)
(* used system gives, frame by frame, the trail positions of the first     *)
(* playback from construction: nothing from before the reset (flow-field   *)
(* time warp, integrator state, trail history) shows in a frame after it.  *)
(* Compared is the first point of the first band, whose drift involves no  *)
(* other point: the position the frame gave it and its trail.              *)
(***************************************************************************)
FirstPoint(l) ==
    [position |-> l.allPositions[1], trail |-> TrailBuffer_getTrail(l.trailBuffer, 0)]

C29_ReplayAfterResetRepeatsFirstPlayback ==
    (lsReset /\ lsFrames # << >>) => FirstPoint(ls["A"]) = FirstPoint(ls["B"])

=========================================================================
